---------------------------- MODULE Spec2Model ----------------------------
(***************************************************************************)
(* AutoLRC: forced alignment (src/src/forced_alignment.py) and the batch   *)
(* pipeline (src/src/processing.py, audio_utils.py, vocal_isolator.py,     *)
(* gemini_api.py).                                                         *)
(*                                                                         *)
(* SpecAlign  : ForcedAligner.perform_alignment followed by                *)
(*              ForcedAligner.create_word_alignment, over every emission   *)
(*              matrix and token sequence within the bounds.               *)
(* SpecBatch  : batch_process_async running process_audio_file_async jobs  *)
(*              on one asyncio event loop, with the shared temp folders.   *)
(*                                                                         *)
(* Scores are integers (float arithmetic on them is exact); float('-inf')  *)
(* is the value NegInf, absorbing under addition.  Times are milliseconds. *)
(***************************************************************************)
EXTENDS Integers, Sequences, FiniteSets, TLC

VARIABLES
    \* ---- ForcedAligner.perform_alignment / create_word_alignment ----
    emissions,      \* [0..F-1 -> [0..NumLabels-1 -> score]]
    tokens,         \* [0..N-1 -> label index]
    trellis,        \* [(0..F) \X (0..N) -> score], <<>> before it is filled
    path,           \* sequence of <<frame, token>> pairs
    t, i,           \* the backtracking cursor
    apc,            \* position in align: "trellis", "backtrack", "path", "words"
    word_segments,  \* sequence of [word, start_time, end_time]
    \* ---- batch_process_async / process_audio_file_async ----
    config,         \* MAX_RETRIES, USE_VOCAL_ISOLATION, max_workers
    files,          \* audio_files: job -> [base, ext]
    env,            \* job -> how the job's external collaborators behave
    jobs,           \* job -> the locals of its process_audio_file_async call
    hist,           \* job -> what the job's collaborators did (history)
    semaphore,      \* [value, waiters] of asyncio.Semaphore(max_workers)
    running,        \* the job the event loop is executing, 0 when idle
    fs,             \* the files that exist under TEMP_DIR and DEMUCS_OUTPUT_FOLDER
    clock,          \* int(time.time())
    batch,          \* [pc, success_count, total] of batch_process_async
    \* ---- _format_time / format_lrc_time ----
    seconds,        \* the time to format, in milliseconds
    stamp,          \* [by, mins, secs, text]: the formatted time
    fpc,            \* "idle", "input" or "formatted"
    \* ---- to_lrc / to_elrc / the plain-text export ----
    alignments,     \* sequence of [word, start_time]
    lrc_content,    \* the line-level document, a sequence of characters
    elrc_content,   \* the word-level document
    txt_content,    \* the plain-text export
    rpc,            \* "idle", "aligned", "lrc", "elrc" or "txt"
    \* ---- the language mapper ----
    language,       \* "English" or "Sinhala", "" when idle
    vocabulary,     \* labels: the sequence of the model's characters
    input_text,     \* the transcript, a sequence of characters
    original,       \* preprocess_text's first list, the original words
    romanized,      \* preprocess_text's second list, the romanized words
    mpc,            \* "idle", "text", "words" or "tokens"
    \* ---- ForcedAligner.align ----
    result,         \* [lrc_content, elrc_content, word_alignments], <<>> before
    raised,         \* whether an exception was raised inside align
    \* ---- config_loader.validate_language ----
    requested,      \* the value of LANGUAGE handed to validate_language
    validated,      \* what the calls made so far have returned, in order
    vpc,            \* "idle", "call", "returned", "again", "mapper", "raised"
    language_mapper,\* the class of the aligner's mapper, "" before
    \* ---- audio_utils.cleanup_temp_files ----
    disk,           \* the paths that exist
    listed,         \* converted_paths, the argument of the call
    broken,         \* the paths whose removal raises
    removals,       \* the calls of os.remove and shutil.rmtree made so far
    upc,            \* [at, k]: "idle", "files" (at listed[k]), "temp",
                    \* "demucs", "returned" or "raised"
    \* ---- timestamping.analyze_audio_timestamps ----
    duration,       \* the audio duration, in seconds
    num_lines,      \* len(lines), the non-empty lines of the text file
    results,        \* the timestamps collected so far, in ticks
    spc             \* [at, k, interval]: "idle", "start", "chunks" (at
                    \* chunk k), "extend" (at round k) or "returned"

alignVars == <<emissions, tokens, trellis, path, t, i, apc, word_segments>>
batchVars == <<config, files, env, jobs, hist, semaphore, running, fs, clock, batch>>
timeVars == <<seconds, stamp, fpc>>
renderVars == <<alignments, lrc_content, elrc_content, txt_content, rpc>>
mapperVars ==
    <<language, vocabulary, input_text, original, romanized, mpc>>
engineVars == <<result, raised>>
languageVars == <<requested, validated, vpc, language_mapper>>
cleanupVars == <<disk, listed, broken, removals, upc>>
stampVars == <<duration, num_lines, results, spc>>
textVars == <<timeVars, renderVars, mapperVars, engineVars, languageVars, cleanupVars, stampVars>>
vars == <<emissions, tokens, trellis, path, t, i, apc, word_segments,
          config, files, env, jobs, hist, semaphore, running, fs, clock, batch,
          textVars>>

---------------------------------------------------------------------------
(* Bounds of the model *)

MaxFrames == 3
MaxTokens == 3
MaxWords == 2
NumJobs == 2
MaxRetries == 2
MaxWorkers == 2
MaxClock == 1
MaxWordFrames == 10
Jitter == 12
MaxAlignments == 5
MaxTextLen == 3
MaxEngineWords == 5
MaxDuration == 10
MaxLines == 5

\* the values an emission score takes
Scores == {-1, 0}

\* float('-inf')
NegInf == -1000000

---------------------------------------------------------------------------
(* ForcedAligner: labels *)

\* bundle.get_labels(), cut down to the blank, the separator and three
\* letters; "x" stands for any character that is not a label
labels == <<"-", "|", "K", "A", "T">>
NumLabels == Len(labels)
LabelIdx == 0 .. NumLabels - 1

InLabels(c) == \E k \in 1 .. Len(labels) : labels[k] = c

\* self.blank = self.labels.index("_") if "_" in self.labels else 0
blank == IF InLabels("_")
         THEN (CHOOSE k \in LabelIdx : labels[k + 1] = "_")
         ELSE 0

sample_rate == 16000

---------------------------------------------------------------------------
(* Score arithmetic *)

Plus(a, b) == IF a = NegInf \/ b = NegInf THEN NegInf ELSE a + b

Max(a, b) == IF a >= b THEN a ELSE b

---------------------------------------------------------------------------
(* perform_alignment *)

NumFrames(em) == Cardinality(DOMAIN em)
NumTokens(tok) == Cardinality(DOMAIN tok)

\* a cell that would keep the worse of the two ways
TrellisCellMin(tr, em, tok, tt, ii) ==
    LET stay == Plus(tr[tt, ii + 1], em[tt][blank])
        take == Plus(tr[tt, ii], em[tt][tok[ii]])
    IN  IF stay <= take THEN stay ELSE take

\* one cell of the recurrence, from row tt of the trellis below it
TrellisCell(tr, em, tok, tt, ii) ==
    Max(Plus(tr[tt, ii + 1], em[tt][blank]),
        Plus(tr[tt, ii], em[tt][tok[ii]]))

\* trellis = full(-inf); trellis[0,0] = 0; trellis[1:,0] = cumsum(blank);
\* then the double loop over t and i
RECURSIVE TrellisRows(_, _, _)
TrellisRows(em, tok, upto) ==
    LET N == NumTokens(tok) IN
    IF upto = 0
    THEN [c \in {0} \X (0 .. N) |-> IF c[2] = 0 THEN 0 ELSE NegInf]
    ELSE LET prev == TrellisRows(em, tok, upto - 1)
             tt == upto - 1
             row == [c \in {upto} \X (0 .. N) |->
                        IF c[2] = 0
                        THEN prev[tt, 0] + em[tt][blank]
                        ELSE TrellisCell(prev, em, tok, tt, c[2] - 1)]
         IN  [c \in (0 .. upto) \X (0 .. N) |->
                 IF c[1] = upto THEN row[c] ELSE prev[c]]

FillTrellis(em, tok) == TrellisRows(em, tok, NumFrames(em))

\* if i > 0 and trellis[t, i] <= trellis[t, i-1] + emissions[t, tokens[i-1]]
TakesTokenStrict(tr, em, tok, tt, ii) ==
    /\ ii > 0
    /\ tr[tt, ii] < Plus(tr[tt, ii - 1], em[tt][tok[ii - 1]])

TakesToken(tr, em, tok, tt, ii) ==
    /\ ii > 0
    /\ tr[tt, ii] <= Plus(tr[tt, ii - 1], em[tt][tok[ii - 1]])

\* path[::-1]
NotReversed(s) == s

Reversed(s) == [k \in 1 .. Len(s) |-> s[Len(s) + 1 - k]]

---------------------------------------------------------------------------
(* create_word_alignment *)

NewLine == "\n"

\* the whitespace characters of the texts
IsSpace(c) == c \in {" ", NewLine}

\* str.strip(): the text without its leading and trailing whitespace
RECURSIVE lstrip(_)
lstrip(s) == IF s # <<>> /\ IsSpace(Head(s)) THEN lstrip(Tail(s)) ELSE s

RECURSIVE rstrip(_)
rstrip(s) ==
    IF s # <<>> /\ IsSpace(s[Len(s)])
    THEN rstrip(SubSeq(s, 1, Len(s) - 1))
    ELSE s

strip(s) == rstrip(lstrip(s))

\* "if word.strip():"
NonBlank(word) == strip(word) # <<>>

\* the number of characters of word that are labels
RECURSIVE CharsInLabels(_)
CharsInLabels(word) ==
    IF word = <<>> THEN 0
    ELSE (IF InLabels(Head(word)) THEN 1 ELSE 0) + CharsInLabels(Tail(word))

\* the loop that recomputes each word's (start_pos, end_pos) token range
RECURSIVE WordIndices(_, _)
WordIndices(romanized_words, token_pos) ==
    IF romanized_words = <<>> THEN <<>>
    ELSE LET word == Head(romanized_words)
             end_pos == token_pos + CharsInLabels(word)
         IN  IF NonBlank(word)
             THEN <<<<token_pos, end_pos>>>>
                     \o WordIndices(Tail(romanized_words), end_pos + 1)
             ELSE WordIndices(Tail(romanized_words), token_pos)

\* [p for p in path if start_idx <= p[1] <= end_idx]
InRange(p, start_idx, end_idx) == start_idx <= p[2] /\ p[2] <= end_idx

WordPath(pth, start_idx, end_idx) ==
    SelectSeq(pth, LAMBDA p : InRange(p, start_idx, end_idx))

\* frame_duration = (total_samples / total_frames) / sample_rate, in ms
FrameDuration(total_samples, total_frames) ==
    (total_samples * 1000) \div (total_frames * sample_rate)

StartTime(word_path, frame_duration) == word_path[1][1] * frame_duration

EndTimeNoFullFrame(word_path, frame_duration) ==
    (word_path[Len(word_path)][1] - 1) * frame_duration

\* end_time = (end_frame + 1) * frame_duration
EndTime(word_path, frame_duration) ==
    (word_path[Len(word_path)][1] + 1) * frame_duration

\* the loop over word_indices, with its break and its word_idx counter
RECURSIVE MapPathToWords(_, _, _, _, _)
MapPathToWords(word_indices, original_non_ws, word_idx, pth, frame_duration) ==
    IF word_indices = <<>> \/ word_idx >= Len(original_non_ws) THEN <<>>
    ELSE LET word_path == WordPath(pth, Head(word_indices)[1], Head(word_indices)[2])
         IN  IF word_path # <<>>
             THEN <<[word |-> original_non_ws[word_idx + 1],
                     start_time |-> StartTime(word_path, frame_duration),
                     end_time |-> EndTime(word_path, frame_duration)]>>
                  \o MapPathToWords(Tail(word_indices), original_non_ws,
                                    word_idx + 1, pth, frame_duration)
             ELSE MapPathToWords(Tail(word_indices), original_non_ws,
                                 word_idx, pth, frame_duration)

create_word_alignment(original_words, romanized_words, em, pth, total_samples) ==
    MapPathToWords(WordIndices(romanized_words, 0),
                   SelectSeq(original_words, NonBlank),
                   0, pth,
                   FrameDuration(total_samples, NumFrames(em)))

---------------------------------------------------------------------------
(* Inputs of the aligner *)

\* the labels the token sequences of SpecAlign are made of: the blank and
\* the separator
TokenLabels == {blank, blank + 1}

\* perform_alignment reads an emission row at the blank and at the labels of
\* the tokens only: the other columns are left out
EmissionMatrices ==
    UNION {[0 .. F - 1 -> [TokenLabels -> Scores]] : F \in 1 .. MaxFrames}

TokenSequences ==
    UNION {[0 .. N - 1 -> TokenLabels] : N \in 1 .. MaxTokens}

\* a romanized word: empty (every character unmapped), one whitespace
\* character, a label character or a character that is no label
RomanizedWords == {<<>>, <<" ">>, <<"-">>, <<"x">>}

RomanizedWordLists ==
    UNION {[1 .. n -> RomanizedWords] : n \in 0 .. MaxWords}

\* the original words of a romanized list: whitespace entries are kept as
\* they are, the k-th entry is otherwise a word of its own
OriginalWords(romanized_words) ==
    [k \in 1 .. Len(romanized_words) |->
        IF romanized_words[k] = <<" ">> THEN <<" ">> ELSE <<ToString(k)>>]

\* samples per emission frame of the waveform
SamplesPerFrame == {320, 480}

---------------------------------------------------------------------------
(* Files and paths *)

Jobs == 1 .. NumJobs

Range(seq) == {seq[k] : k \in 1 .. Len(seq)}

\* the audio files of the input folder; a name is a sequence of characters
AudioNames ==
    <<[base |-> <<"a">>, ext |-> "mp3"],
      [base |-> <<"a">>, ext |-> "wav"],
      [base |-> <<"b", " ", "c">>, ext |-> "mp3"]>>

\* os.listdir(folder_path): distinct files, one per job
Listings ==
    {[j \in Jobs |-> AudioNames[f[j]]] :
        f \in {g \in [Jobs -> 1 .. Len(AudioNames)] :
                  \A j, k \in Jobs : j < k => g[j] < g[k]}}

\* [a-zA-Z0-9_-], as far as the names above go
SafeChars == {"a", "b", "c", "_", "-"}

\* re.sub(r'_+', '_', ...)
RECURSIVE CollapseUnderscores(_)
CollapseUnderscores(name) ==
    IF Len(name) < 2 THEN name
    ELSE IF name[1] = "_" /\ name[2] = "_"
         THEN CollapseUnderscores(Tail(name))
         ELSE <<name[1]>> \o CollapseUnderscores(Tail(name))

\* re.sub(r'[^a-zA-Z0-9_-]', '_', filename), then the collapse
sanitize_filename(name) ==
    CollapseUnderscores(
        [k \in 1 .. Len(name) |-> IF name[k] \in SafeChars THEN name[k] ELSE "_"])

NoPath == [dir |-> "", id |-> 0, name |-> <<>>, suffix |-> ""]

\* os.path.join(folder_path, file_path)
InputPath(file) ==
    [dir |-> "input", id |-> 0, name |-> file.base, suffix |-> file.ext]

TempDir == [dir |-> "TEMP_DIR", id |-> 0, name |-> <<>>, suffix |-> "/"]

DemucsDir ==
    [dir |-> "DEMUCS_OUTPUT_FOLDER", id |-> 0, name |-> <<>>, suffix |-> "/"]

\* custom_output_dir = DEMUCS_OUTPUT_FOLDER/output_<int(time.time())>
CustomOutputDir(now) ==
    [dir |-> "DEMUCS_OUTPUT_FOLDER", id |-> now, name |-> <<>>, suffix |-> "/"]

\* safe_input_path = TEMP_DIR/<sanitized base><ext>
SafeInputPath(input_path) ==
    [dir |-> "TEMP_DIR", id |-> 0,
     name |-> sanitize_filename(input_path.name), suffix |-> input_path.suffix]

\* custom_output_dir/htdemucs/<base of the working copy>/vocals.wav
VocalsPath(input_path, now) ==
    [dir |-> "DEMUCS_OUTPUT_FOLDER", id |-> now,
     name |-> sanitize_filename(input_path.name), suffix |-> "vocals.wav"]

\* os.path.splitext(os.path.basename(input_path))[0]
Stem(input_path) ==
    IF input_path.suffix = "vocals.wav" THEN <<"vocals">> ELSE input_path.name

\* TEMP_DIR/<stem of the input>_converted.wav
ConvertedPath(input_path) ==
    [dir |-> "TEMP_DIR", id |-> 0,
     name |-> Stem(input_path), suffix |-> "_converted.wav"]

\* cleanup_temp_files(paths): os.remove of each listed path that exists,
\* then shutil.rmtree of TEMP_DIR and of DEMUCS_OUTPUT_FOLDER
cleanup_temp_files(files_now, paths) ==
    {p \in files_now :
        /\ p \notin Range(paths)
        /\ p.dir # "TEMP_DIR"
        /\ p.dir # "DEMUCS_OUTPUT_FOLDER"}

---------------------------------------------------------------------------
(* The external collaborators *)

\* isolate_vocals: shutil.copy2 raises, None is returned, or the vocals path
IsolateOutcomes == {"copy_raises", "none", "vocals"}

\* response.text of generate_content_async, or an exception
ResponseTexts == {<<>>, <<" ">>, <<"a">>, <<"a", " ">>}

Raises == [raises |-> TRUE, text |-> <<>>]

Text(x) == [raises |-> FALSE, text |-> x]

NoResponse == [raises |-> FALSE, text |-> <<"(no call yet)">>]

Responses == {Raises} \cup {Text(x) : x \in ResponseTexts}

\* CREATE_LRC and CREATE_ELRC: both on, or every CREATE_* option off
OutputOptions == BOOLEAN

\* a flag that would be set whatever was written
AlwaysCreated(outputs) == "True"

\* outputs_created: set when a _save_output_file call returned a path
outputs_created(outputs) == IF outputs # {} THEN "True" ELSE "False"

\* the output files the configuration asks for
Requested(cfg) ==
    (IF cfg.CREATE_LRC THEN {"lrc"} ELSE {})
        \cup (IF cfg.CREATE_ELRC THEN {"elrc"} ELSE {})
        \cup (IF cfg.CREATE_TXT THEN {"txt"} ELSE {})

\* What a job's collaborators have done so far (history):
\* "works": every call made for the job worked;
\* "api_down": every transcription call failed, every other call worked;
\* "any": neither
EnvKinds == {"works", "api_down", "any"}

\* a collaborator other than the transcription service was called
Observed(e, ok) == IF ok THEN e ELSE "any"

\* the transcription service answered
ObservedResponse(e, response) ==
    IF response.raises \/ response.text = <<>>
    THEN (IF e = "any" THEN "any" ELSE "api_down")
    ELSE IF strip(response.text) # <<>> /\ e = "works" THEN "works" ELSE "any"

---------------------------------------------------------------------------
(* get_gemini_transcript *)

None == [isNone |-> TRUE, text |-> <<>>]

Some(x) == [isNone |-> FALSE, text |-> x]

\* a test that lets the empty string through: "if transcript is None"
IsNone(transcript) == transcript.isNone

\* "if not transcript"
Falsy(transcript) == transcript.isNone \/ transcript.text = <<>>

\* "if attempt < max_retries - 1": another attempt follows a failed one
RetriesLeftOffByOne(attempt, max_retries) == attempt < max_retries

RetriesLeft(attempt, max_retries) == attempt < max_retries - 1

\* "if response and response.text"
HasText(response) ==
    response # NoResponse /\ ~response.raises /\ response.text # <<>>

\* "return response.text.strip()"
ReturnedTranscript(response) == Some(strip(response.text))

---------------------------------------------------------------------------
(* asyncio.Semaphore *)

\* Semaphore.locked(): no slot, or a waiter is queued
LockedNever(sem) == FALSE

Locked(sem) == sem.value = 0 \/ sem.waiters # <<>>

\* a release that would wake no waiter
NobodyWoken(sem, js) == 0

\* Semaphore.release(): hand the slot to the first waiter not yet woken, or
\* return it to the counter
FirstUnwoken(sem, js) ==
    LET ks == {k \in 1 .. Len(sem.waiters) : js[sem.waiters[k]].pc = "waiting"}
    IN  IF ks = {} THEN 0
        ELSE sem.waiters[CHOOSE k \in ks : \A m \in ks : k <= m]

ReleaseValue(sem, js) ==
    IF FirstUnwoken(sem, js) = 0 THEN sem.value + 1 ELSE sem.value

---------------------------------------------------------------------------
(* Batch state while the aligner runs, and aligner state while the batch runs *)

IdleBatch ==
    /\ config = [MAX_RETRIES |-> 0, USE_VOCAL_ISOLATION |-> FALSE,
                 CREATE_LRC |-> FALSE, CREATE_ELRC |-> FALSE,
                 CREATE_TXT |-> FALSE, max_workers |-> 0]
    /\ files = <<>>
    /\ env = <<>>
    /\ jobs = <<>>
    /\ hist = <<>>
    /\ semaphore = [value |-> 0, waiters |-> <<>>]
    /\ running = 0
    /\ fs = {}
    /\ clock = 0
    /\ batch = [pc |-> "idle", success_count |-> 0, total |-> 0]

NoStamp == [by |-> "", mins |-> 0, secs |-> 0, text |-> <<>>]

IdleTime ==
    /\ seconds = 0
    /\ stamp = NoStamp
    /\ fpc = "idle"

IdleRender ==
    /\ alignments = <<>>
    /\ lrc_content = <<>>
    /\ elrc_content = <<>>
    /\ txt_content = <<>>
    /\ rpc = "idle"

IdleMapper ==
    /\ language = ""
    /\ vocabulary = <<>>
    /\ input_text = <<>>
    /\ original = <<>>
    /\ romanized = <<>>
    /\ mpc = "idle"

IdleEngine ==
    /\ result = <<>>
    /\ raised = FALSE

IdleLanguage ==
    /\ requested = [type |-> "NoneType", value |-> ""]
    /\ validated = <<>>
    /\ vpc = "idle"
    /\ language_mapper = ""

IdleCleanup ==
    /\ disk = {}
    /\ listed = <<>>
    /\ broken = {}
    /\ removals = <<>>
    /\ upc = [at |-> "idle", k |-> 0]

IdleStamps ==
    /\ duration = 0
    /\ num_lines = 0
    /\ results = <<>>
    /\ spc = [at |-> "idle", k |-> 0, interval |-> 0]

IdleText ==
    /\ IdleTime
    /\ IdleRender
    /\ IdleMapper
    /\ IdleEngine
    /\ IdleLanguage
    /\ IdleCleanup
    /\ IdleStamps

IdleAlign ==
    /\ emissions = <<>>
    /\ tokens = <<>>
    /\ trellis = <<>>
    /\ path = <<>>
    /\ t = 0
    /\ i = 0
    /\ apc = "idle"
    /\ word_segments = <<>>

---------------------------------------------------------------------------
(* SpecAlign: perform_alignment, then create_word_alignment *)

InitAlign ==
    /\ emissions \in EmissionMatrices
    /\ tokens \in TokenSequences
    /\ trellis = <<>>
    /\ path = <<>>
    /\ t = 0
    /\ i = 0
    /\ apc = "trellis"
    /\ word_segments = <<>>
    /\ IdleBatch
    /\ IdleText

\* lines 63-79: fill the trellis, start the cursor at the last frame
BuildTrellis ==
    /\ apc = "trellis"
    /\ trellis' = FillTrellis(emissions, tokens)
    /\ path' = <<>>
    /\ t' = NumFrames(emissions) - 1
    /\ i' = NumTokens(tokens)
    /\ apc' = "backtrack"
    /\ UNCHANGED <<emissions, tokens, word_segments>>
    /\ UNCHANGED <<batchVars, textVars>>

\* lines 81-87: one iteration of the backtracking loop
BacktrackStep ==
    /\ apc = "backtrack"
    /\ t >= 0 /\ i >= 0
    /\ IF TakesToken(trellis, emissions, tokens, t, i)
       THEN /\ path' = Append(path, <<t, i - 1>>)
            /\ i' = i - 1
            /\ t' = t
       ELSE /\ path' = Append(path, <<t, i>>)
            /\ t' = t - 1
            /\ i' = i
    /\ UNCHANGED <<emissions, tokens, trellis, apc, word_segments>>
    /\ UNCHANGED <<batchVars, textVars>>

\* line 89: the loop has ended, return path[::-1]
ReturnPath ==
    /\ apc = "backtrack"
    /\ ~(t >= 0 /\ i >= 0)
    /\ path' = Reversed(path)
    /\ apc' = "path"
    /\ UNCHANGED <<emissions, tokens, trellis, t, i, word_segments>>
    /\ UNCHANGED <<batchVars, textVars>>

\* lines 91-145, for one of the given lists of romanized words; the two
\* lists of words the call was given are kept
CreateWordAlignmentOf(lists) ==
    /\ apc = "path"
    /\ \E romanized_words \in lists, spf \in SamplesPerFrame :
          /\ original' = OriginalWords(romanized_words)
          /\ romanized' = romanized_words
          /\ word_segments' =
                 create_word_alignment(OriginalWords(romanized_words),
                                       romanized_words, emissions, path,
                                       spf * NumFrames(emissions))
    /\ apc' = "words"
    /\ UNCHANGED <<emissions, tokens, trellis, path, t, i>>
    /\ UNCHANGED <<language, vocabulary, input_text, mpc>>
    /\ UNCHANGED <<batchVars, timeVars, renderVars, engineVars,
                   languageVars, cleanupVars, stampVars>>

CreateWordAlignment == CreateWordAlignmentOf(RomanizedWordLists)

NextAlign ==
    \/ BuildTrellis
    \/ BacktrackStep
    \/ ReturnPath
    \/ CreateWordAlignment

SpecAlign == InitAlign /\ [][NextAlign]_vars

---------------------------------------------------------------------------
(* SpecWord: one word of three letters aligned against frames that favour *)
(* its letters over consecutive ranges                                    *)

\* the romanized word and its tokens: the letters, then the separator
TheWord == <<"K", "A", "T">>

LabelIndex(c) == CHOOSE k \in LabelIdx : labels[k + 1] = c

WordTokens == [n \in 0 .. 3 |-> IF n < 3 THEN LabelIndex(TheWord[n + 1])
                                          ELSE LabelIndex("|")]

\* the score of the favoured label of a frame; the other labels score less
FavouredScores == {-1, 0}

Unfavoured(fav) == fav - 2

\* frames 0 .. a-1 favour the first letter, a .. b-1 the second and
\* b .. F-1 the third
FavouringEmissions(F, a, b, fav) ==
    [f \in 0 .. F - 1 |->
        LET letter == IF f < a THEN TheWord[1]
                      ELSE IF f < b THEN TheWord[2] ELSE TheWord[3]
        IN  [l \in LabelIdx |->
                IF l = LabelIndex(letter) THEN fav ELSE Unfavoured(fav)]]

InitWord ==
    /\ \E F \in 3 .. MaxWordFrames, a \in 1 .. MaxWordFrames,
          b \in 2 .. MaxWordFrames, fav \in FavouredScores :
          /\ a < b /\ b < F
          /\ emissions = FavouringEmissions(F, a, b, fav)
    /\ tokens = WordTokens
    /\ trellis = <<>>
    /\ path = <<>>
    /\ t = 0
    /\ i = 0
    /\ apc = "trellis"
    /\ word_segments = <<>>
    /\ IdleBatch
    /\ IdleText

CreateOneWordAlignment == CreateWordAlignmentOf({<<TheWord>>})

NextWord ==
    \/ BuildTrellis
    \/ BacktrackStep
    \/ ReturnPath
    \/ CreateOneWordAlignment

SpecWord == InitWord /\ [][NextWord]_vars

---------------------------------------------------------------------------
(* SpecBatch: batch_process_async on one event loop *)

\* the locals of process_audio_file_async
NewJob ==
    [pc |-> "pending", file_path |-> NoPath, temp_files |-> <<>>,
     converted_path |-> NoPath, attempt |-> 0, response |-> NoResponse,
     transcript |-> None, content |-> "none", outputs |-> {},
     result |-> "none"]

NewHist ==
    [calls |-> 0, cleaned |-> FALSE, leftover |-> {}]

InitBatch ==
    /\ \E retries \in 0 .. MaxRetries, isolation \in BOOLEAN,
          create \in OutputOptions, workers \in 1 .. MaxWorkers :
          config = [MAX_RETRIES |-> retries,
                    USE_VOCAL_ISOLATION |-> isolation,
                    CREATE_LRC |-> create, CREATE_ELRC |-> create,
                    CREATE_TXT |-> FALSE,
                    max_workers |-> workers]
    /\ files \in Listings
    /\ env = [j \in Jobs |-> "works"]
    /\ jobs = [j \in Jobs |-> NewJob]
    /\ hist = [j \in Jobs |-> NewHist]
    /\ semaphore = [value |-> config.max_workers, waiters |-> <<>>]
    /\ running = 0
    /\ fs = {}
    /\ clock = 0
    /\ batch = [pc |-> "gather", success_count |-> 0, total |-> 0]
    /\ IdleAlign
    /\ IdleText

FirstStage == IF config.USE_VOCAL_ISOLATION THEN "isolate" ELSE "convert"

\* a coroutine that would leave the event loop free on being resumed
YieldsWhenResumed(j) == 0

\* who runs on the event loop once the await of job j is over: the
\* coroutine of job j is resumed and runs until its next await
ResumedCoroutine(j) == j

\* the job is inside process_audio_file_async
InFlight(job) == job.pc \notin {"pending", "waiting", "woken", "done"}

\* process_audio_file_async returns res: "async with semaphore" releases the
\* slot and the event loop is free again
JobReturns(j, locals, res) ==
    LET next == FirstUnwoken(semaphore, jobs)
        \* the call's locals are gone; its result and its output files stay
        done == [NewJob EXCEPT !.pc = "done", !.result = res,
                               !.outputs = locals.outputs]
    IN  /\ jobs' = [k \in Jobs |->
                      IF k = j THEN done
                      ELSE IF k = next THEN [jobs[k] EXCEPT !.pc = "woken"]
                      ELSE jobs[k]]
        /\ semaphore' = [semaphore EXCEPT !.value = ReleaseValue(semaphore, jobs)]
        /\ running' = 0

\* the task of job j starts: "async with semaphore" takes a slot or queues
Start(j) ==
    /\ batch.pc = "gather"
    /\ running = 0
    /\ jobs[j].pc = "pending"
    /\ \A k \in Jobs : k < j => jobs[k].pc # "pending"
    /\ IF Locked(semaphore)
       THEN /\ semaphore' = [semaphore EXCEPT !.waiters = Append(@, j)]
            /\ jobs' = [jobs EXCEPT ![j].pc = "waiting"]
            /\ running' = 0
       ELSE /\ semaphore' = [semaphore EXCEPT !.value = @ - 1]
            /\ jobs' = [jobs EXCEPT ![j].pc = FirstStage,
                                    ![j].file_path = InputPath(files[j])]
            /\ running' = j
    /\ UNCHANGED <<config, files, env, hist, fs, clock, batch>>
    /\ UNCHANGED <<alignVars, textVars>>

\* a woken waiter resumes with the slot release() gave it
Resume(j) ==
    /\ running = 0
    /\ jobs[j].pc = "woken"
    /\ semaphore' = [semaphore EXCEPT
                        !.waiters = SelectSeq(@, LAMBDA k : k # j)]
    /\ jobs' = [jobs EXCEPT ![j].pc = FirstStage,
                            ![j].file_path = InputPath(files[j])]
    /\ running' = j
    /\ UNCHANGED <<config, files, env, hist, fs, clock, batch>>
    /\ UNCHANGED <<alignVars, textVars>>

\* processing.py 98-104 with vocal_isolator.isolate_vocals
IsolateVocals(j) ==
    /\ running = j
    /\ jobs[j].pc = "isolate"
    /\ \E outcome \in IsolateOutcomes, now \in clock .. MaxClock :
          LET input == jobs[j].file_path
              copy == SafeInputPath(input)
              vocals == VocalsPath(input, now)
              dirs == {TempDir, DemucsDir, CustomOutputDir(now)}
          IN  CASE outcome = "copy_raises" ->
                     \* the exception leaves isolate_vocals and is caught by
                     \* process_audio_file_async, which returns False
                     /\ fs' = fs \cup {TempDir}
                     /\ clock' = clock
                     /\ env' = [env EXCEPT ![j] = "any"]
                     /\ JobReturns(j, jobs[j], "False")
                [] outcome = "none" ->
                     /\ fs' = fs \cup dirs \cup {copy}
                     /\ clock' = now
                     /\ env' = env
                     /\ jobs' = [jobs EXCEPT ![j].pc = "convert"]
                     /\ UNCHANGED <<semaphore, running>>
                [] OTHER ->
                     /\ fs' = fs \cup dirs \cup {copy, vocals}
                     /\ clock' = now
                     /\ env' = env
                     /\ jobs' = [jobs EXCEPT
                                    ![j].pc = "convert",
                                    ![j].file_path = vocals,
                                    ![j].temp_files = Append(@, vocals)]
                     /\ UNCHANGED <<semaphore, running>>
    /\ UNCHANGED <<config, files, hist, batch>>
    /\ UNCHANGED <<alignVars, textVars>>

\* processing.py 106-110 with audio_utils.convert_to_wav
ConvertToWav(j) ==
    /\ running = j
    /\ jobs[j].pc = "convert"
    /\ \E ok \in BOOLEAN :
          LET converted == ConvertedPath(jobs[j].file_path)
          IN  IF ok
              THEN /\ fs' = fs \cup {TempDir, converted}
                   /\ hist' = hist
                   /\ env' = env
                   /\ jobs' = [jobs EXCEPT
                                  ![j].pc = "transcribe",
                                  ![j].converted_path = converted,
                                  ![j].temp_files = Append(@, converted)]
                   /\ UNCHANGED <<semaphore, running>>
              ELSE \* "if not converted_path: return False"
                   /\ fs' = fs
                   /\ hist' = [hist EXCEPT
                                  ![j].leftover =
                                      Range(jobs[j].temp_files) \cap fs]
                   /\ env' = [env EXCEPT ![j] = "any"]
                   /\ JobReturns(j, jobs[j], "False")
    /\ UNCHANGED <<config, files, clock, batch>>
    /\ UNCHANGED <<alignVars, textVars>>

\* transcribe_and_timestamp up to the first attempt of get_gemini_transcript
Transcribe(j) ==
    /\ running = j
    /\ jobs[j].pc = "transcribe"
    /\ \E api_key \in BOOLEAN :
          /\ jobs' = [jobs EXCEPT
                        ![j].attempt = 0,
                        ![j].pc = IF api_key /\ 0 < config.MAX_RETRIES
                                  THEN "attempt" ELSE "save"]
          /\ env' = [env EXCEPT ![j] = Observed(@, api_key)]
    /\ UNCHANGED <<config, files, hist, semaphore, running, fs, clock, batch>>
    /\ UNCHANGED <<alignVars, textVars>>

\* the except branch of an attempt: sleep and retry, or give up with None
AttemptFailed(j, response) ==
    /\ IF RetriesLeft(jobs[j].attempt, config.MAX_RETRIES)
       THEN /\ jobs' = [jobs EXCEPT ![j].pc = "sleeping",
                                    ![j].response = response]
            /\ running' = 0
       ELSE /\ jobs' = [jobs EXCEPT ![j].pc = "save",
                                    ![j].response = response,
                                    ![j].transcript = None]
            /\ running' = j

\* gemini_api.py 27-38: read the audio file and send the request
Attempt(j) ==
    /\ running = j
    /\ jobs[j].pc = "attempt"
    /\ IF jobs[j].converted_path \in fs
       THEN /\ jobs' = [jobs EXCEPT ![j].pc = "calling"]
            /\ hist' = [hist EXCEPT ![j].calls = @ + 1]
            /\ running' = 0
       ELSE \* open(audio_path) raises
            /\ AttemptFailed(j, jobs[j].response)
            /\ hist' = hist
    /\ UNCHANGED <<config, files, env, semaphore, fs, clock, batch>>
    /\ UNCHANGED <<alignVars, textVars>>

\* gemini_api.py 33-52: the awaited call completes
Response(j) ==
    /\ running = 0
    /\ jobs[j].pc = "calling"
    /\ \E response \in Responses :
          LET transcript == ReturnedTranscript(response)
          IN  /\ env' = [env EXCEPT ![j] = ObservedResponse(@, response)]
              /\ CASE response.raises -> AttemptFailed(j, response)
                [] HasText(response) ->
                     \* "return response.text.strip()", then
                     \* "if not transcript: return None, None"
                     /\ jobs' = [jobs EXCEPT
                                    ![j].response = response,
                                    ![j].transcript = transcript,
                                    ![j].pc = IF Falsy(transcript)
                                              THEN "save" ELSE "align"]
                     /\ running' = ResumedCoroutine(j)
                [] OTHER ->
                     \* no text: the loop goes on without sleeping
                     /\ jobs' = [jobs EXCEPT
                                    ![j].attempt = @ + 1,
                                    ![j].response = response,
                                    ![j].transcript = None,
                                    ![j].pc = IF jobs[j].attempt + 1 < config.MAX_RETRIES
                                              THEN "attempt" ELSE "save"]
                     /\ running' = ResumedCoroutine(j)
    /\ UNCHANGED <<config, files, hist, semaphore, fs, clock, batch>>
    /\ UNCHANGED <<alignVars, textVars>>

\* asyncio.sleep(retry_delay) is over: the next attempt
SleepDone(j) ==
    /\ running = 0
    /\ jobs[j].pc = "sleeping"
    /\ jobs' = [jobs EXCEPT ![j].attempt = @ + 1, ![j].pc = "attempt"]
    /\ running' = ResumedCoroutine(j)
    /\ UNCHANGED <<config, files, env, hist, semaphore, fs, clock, batch>>
    /\ UNCHANGED <<alignVars, textVars>>

\* processing.py 48-58: get_alignment loads the converted file and aligns
Align(j) ==
    /\ running = j
    /\ jobs[j].pc = "align"
    /\ IF jobs[j].converted_path \in fs
       THEN \E ok \in BOOLEAN :
               /\ jobs' = [jobs EXCEPT
                             ![j].pc = "save",
                             ![j].content = IF ok THEN "text" ELSE "none"]
               /\ env' = [env EXCEPT ![j] = Observed(@, ok)]
       ELSE \* load_audio raises; align catches it and returns None, None, []
            /\ jobs' = [jobs EXCEPT ![j].pc = "save", ![j].content = "none"]
            /\ env' = env
    /\ UNCHANGED <<config, files, hist, semaphore, running, fs, clock, batch>>
    /\ UNCHANGED <<alignVars, textVars>>

\* processing.py 116-135: write the requested output files
Save(j) ==
    /\ running = j
    /\ jobs[j].pc = "save"
    /\ IF jobs[j].content = "text"
       THEN \E written \in SUBSET Requested(config) :
               /\ jobs' = [jobs EXCEPT ![j].pc = "cleanup",
                                       ![j].outputs = written]
               /\ env' = [env EXCEPT
                             ![j] = Observed(@, written = Requested(config))]
       ELSE /\ jobs' = [jobs EXCEPT ![j].pc = "cleanup"]
            /\ env' = env
    /\ UNCHANGED <<config, files, hist, semaphore, running, fs, clock, batch>>
    /\ UNCHANGED <<alignVars, textVars>>

\* processing.py 135-138: finally cleanup_temp_files(temp_files), then
\* return outputs_created
Cleanup(j) ==
    /\ running = j
    /\ jobs[j].pc = "cleanup"
    /\ fs' = cleanup_temp_files(fs, jobs[j].temp_files)
    /\ hist' = [hist EXCEPT
                   ![j].cleaned = TRUE,
                   ![j].leftover = Range(jobs[j].temp_files) \cap fs']
    /\ JobReturns(j, jobs[j], outputs_created(jobs[j].outputs))
    /\ UNCHANGED <<config, files, env, clock, batch>>
    /\ UNCHANGED <<alignVars, textVars>>

\* processing.py 178-182: gather has every result
Gather ==
    /\ batch.pc = "gather"
    /\ running = 0
    /\ \A j \in Jobs : jobs[j].pc = "done"
    /\ batch' = [pc |-> "returned",
                 success_count |->
                     Cardinality({j \in Jobs : jobs[j].result = "True"}),
                 total |-> Cardinality(DOMAIN files)]
    /\ UNCHANGED <<config, files, env, jobs, hist, semaphore, running, fs, clock>>
    /\ UNCHANGED <<alignVars, textVars>>

NextBatch ==
    \/ \E j \in Jobs : Start(j)
    \/ \E j \in Jobs : Resume(j)
    \/ \E j \in Jobs : IsolateVocals(j)
    \/ \E j \in Jobs : ConvertToWav(j)
    \/ \E j \in Jobs : Transcribe(j)
    \/ \E j \in Jobs : Attempt(j)
    \/ \E j \in Jobs : Response(j)
    \/ \E j \in Jobs : SleepDone(j)
    \/ \E j \in Jobs : Align(j)
    \/ \E j \in Jobs : Save(j)
    \/ \E j \in Jobs : Cleanup(j)
    \/ Gather

SpecBatch == InitBatch /\ [][NextBatch]_vars

---------------------------------------------------------------------------
(* SpecTime: ForcedAligner._format_time and transcribe.format_lrc_time *)

DigitChars == <<"0", "1", "2", "3", "4", "5", "6", "7", "8", "9">>

\* the decimal digits of a natural number
RECURSIVE Digits(_)
Digits(n) ==
    IF n < 10 THEN <<DigitChars[n + 1]>>
    ELSE Digits(n \div 10) \o <<DigitChars[(n % 10) + 1]>>

\* zero padding to a minimum width, as the "0w" of a format specification
RECURSIVE ZeroPad(_, _)
ZeroPad(s, width) == IF Len(s) >= width THEN s ELSE ZeroPad(<<"0">> \o s, width)

\* f"{mins:02d}"
Format02d(n) == ZeroPad(Digits(n), 2)

\* f"{secs:05.2f}" of a number of hundredths
Format052f(hundredths) ==
    ZeroPad(Digits(hundredths \div 100) \o <<".">>
                \o ZeroPad(Digits(hundredths % 100), 2), 5)

\* rounding milliseconds to hundredths of a second; a time that ends in 5
\* milliseconds has no exact float and goes either way (up)
TruncateToHundredths(ms, up) == ms \div 10

RoundToHundredths(ms, up) ==
    IF ms % 10 < 5 THEN ms \div 10
    ELSE IF ms % 10 > 5 THEN ms \div 10 + 1
    ELSE IF up THEN ms \div 10 + 1 ELSE ms \div 10

\* forced_alignment.py 242-249
format_time(ms, up) ==
    LET rounded_seconds == RoundToHundredths(ms, up)
        mins == rounded_seconds \div 6000
        secs == rounded_seconds % 6000
    IN  [by |-> "_format_time", mins |-> mins, secs |-> secs,
         text |-> <<"[">> \o Format02d(mins) \o <<":">> \o Format052f(secs)
                      \o <<"]">>]

\* transcribe.py 85-89: the split comes first, the format rounds the seconds
format_lrc_time(ms, up) ==
    LET minutes == ms \div 60000
        secs == RoundToHundredths(ms % 60000, up)
    IN  [by |-> "format_lrc_time", mins |-> minutes, secs |-> secs,
         text |-> <<"[">> \o Format02d(minutes) \o <<":">> \o Format052f(secs)
                      \o <<"]">>]

\* the times formatted: the examples, and the milliseconds around one
\* minute and around 100 minutes
Times ==
    {0, 65500, 3600000}
        \cup {m * 60000 + d : m \in {1, 100}, d \in (0 - Jitter) .. Jitter}

InitTime ==
    /\ seconds \in Times
    /\ stamp = NoStamp
    /\ fpc = "input"
    /\ IdleAlign
    /\ IdleBatch
    /\ IdleRender
    /\ IdleMapper
    /\ IdleEngine
    /\ IdleLanguage
    /\ IdleCleanup
    /\ IdleStamps

FormatTime ==
    /\ fpc = "input"
    /\ \E up \in BOOLEAN : stamp' = format_time(seconds, up)
    /\ fpc' = "formatted"
    /\ UNCHANGED <<seconds, alignVars, batchVars, renderVars, languageVars,
                   cleanupVars, stampVars>>
    /\ UNCHANGED <<mapperVars, engineVars>>

FormatLrcTime ==
    /\ fpc = "input"
    /\ \E up \in BOOLEAN : stamp' = format_lrc_time(seconds, up)
    /\ fpc' = "formatted"
    /\ UNCHANGED <<seconds, alignVars, batchVars, renderVars, languageVars,
                   cleanupVars, stampVars>>
    /\ UNCHANGED <<mapperVars, engineVars>>

NextTime ==
    \/ FormatTime
    \/ FormatLrcTime

SpecTime == InitTime /\ [][NextTime]_vars

---------------------------------------------------------------------------
(* SpecRender: ForcedAligner.to_lrc, to_elrc and the plain-text export *)

\* ''.join(parts)
RECURSIVE Flatten(_)
Flatten(seqs) == IF seqs = <<>> THEN <<>> ELSE Head(seqs) \o Flatten(Tail(seqs))

\* "sep".join(parts)
RECURSIVE Join(_, _)
Join(parts, sep) ==
    IF parts = <<>> THEN <<>>
    ELSE IF Len(parts) = 1 THEN parts[1]
    ELSE parts[1] \o sep \o Join(Tail(parts), sep)

\* self._format_time(a.start_time); the start times rendered here have an
\* exact number of hundredths, so the rounding has one outcome
Timestamp(a) == format_time(a.start_time, TRUE).text

\* forced_alignment.py 230-234
format_lrc_line(line) ==
    LET line_text == Join([k \in 1 .. Len(line) |-> line[k].word], <<" ">>)
        timestamp == Timestamp(line[1])
    IN  timestamp \o line_text

\* forced_alignment.py 236-240
format_elrc_line(line) ==
    LET line_start == Timestamp(line[1])
        word_timestamps ==
            [k \in 1 .. Len(line) |->
                <<"<">> \o Timestamp(line[k]) \o <<">">> \o line[k].word]
    IN  line_start \o Join(word_timestamps, <<>>)

lrc_words_per_line == 4
elrc_words_per_line == 3

\* the loop of to_lrc and to_elrc with a line closed one word late
RECURSIVE LinesClosedLate(_, _, _)
LinesClosedLate(als, words_per_line, current_line) ==
    IF als = <<>>
    THEN IF current_line # <<>> THEN <<current_line>> ELSE <<>>
    ELSE LET line == Append(current_line, Head(als))
         IN  IF Len(line) > words_per_line
             THEN <<line>> \o LinesClosedLate(Tail(als), words_per_line, <<>>)
             ELSE LinesClosedLate(Tail(als), words_per_line, line)

\* the loop of to_lrc and to_elrc: current_line is closed when it holds
\* words_per_line alignments, and what is left after the loop is a line
RECURSIVE Lines(_, _, _)
Lines(als, words_per_line, current_line) ==
    IF als = <<>>
    THEN IF current_line # <<>> THEN <<current_line>> ELSE <<>>
    ELSE LET line == Append(current_line, Head(als))
         IN  IF Len(line) >= words_per_line
             THEN <<line>> \o Lines(Tail(als), words_per_line, <<>>)
             ELSE Lines(Tail(als), words_per_line, line)

\* forced_alignment.py 190-208
to_lrc(als) ==
    IF als = <<>> THEN <<>>
    ELSE LET lines == Lines(als, lrc_words_per_line, <<>>)
         IN  Join([k \in 1 .. Len(lines) |-> format_lrc_line(lines[k])],
                  <<NewLine>>)

\* forced_alignment.py 210-228
to_elrc(als) ==
    IF als = <<>> THEN <<>>
    ELSE LET lines == Lines(als, elrc_words_per_line, <<>>)
         IN  Join([k \in 1 .. Len(lines) |-> format_elrc_line(lines[k])],
                  <<NewLine>>)

IsDigit(c) == \E d \in 1 .. Len(DigitChars) : DigitChars[d] = c

\* open \d{2}:\d{2}\.\d{2} close matches text at position k
MatchesStamp(text, k, open, close) ==
    /\ k + 9 <= Len(text)
    /\ text[k] = open
    /\ IsDigit(text[k + 1]) /\ IsDigit(text[k + 2])
    /\ text[k + 3] = ":"
    /\ IsDigit(text[k + 4]) /\ IsDigit(text[k + 5])
    /\ text[k + 6] = "."
    /\ IsDigit(text[k + 7]) /\ IsDigit(text[k + 8])
    /\ text[k + 9] = close

\* the positions of a set in increasing order
Sorted(positions) ==
    [n \in 1 .. Cardinality(positions) |->
        CHOOSE p \in positions : Cardinality({q \in positions : q <= p}) = n]

\* re.sub(pattern, '', text): every match is removed; a match holds its
\* opening bracket once, at its start, so no two matches overlap
re_sub(text, open, close) ==
    LET matches == {k \in 1 .. Len(text) : MatchesStamp(text, k, open, close)}
        kept == {p \in 1 .. Len(text) :
                    \A k \in matches : p < k \/ p > k + 9}
        order == Sorted(kept)
    IN  [n \in 1 .. Len(order) |-> text[order[n]]]

\* text.splitlines(): a line ends before each line break and at the end of
\* a text that does not end with a line break
splitlines(text) ==
    LET breaks == {p \in 1 .. Len(text) : text[p] = NewLine}
        ends == breaks \cup (IF text # <<>> /\ text[Len(text)] # NewLine
                             THEN {Len(text) + 1} ELSE {})
        order == Sorted(ends)
    IN  [n \in 1 .. Len(order) |->
            SubSeq(text, IF n = 1 THEN 1 ELSE order[n - 1] + 1, order[n] - 1)]

\* processing.py 128-130
plain_text(content) ==
    LET no_square == re_sub(content, "[", "]")
        no_angle == re_sub(no_square, "<", ">")
        lines == splitlines(no_angle)
        stripped == [k \in 1 .. Len(lines) |-> strip(lines[k])]
    IN  Join(SelectSeq(stripped, LAMBDA line : line # <<>>), <<NewLine>>)

\* the words rendered, none of them with whitespace
RenderWords == {<<"a">>, <<"b", "c">>}

\* the start times rendered: below one minute, and 100 minutes
RenderTimes == {1500, 6000000}

WordAlignments == [word : RenderWords, start_time : RenderTimes]

AlignmentLists ==
    UNION {[1 .. n -> WordAlignments] : n \in 0 .. MaxAlignments}

InitRender ==
    /\ alignments \in AlignmentLists
    /\ lrc_content = <<>>
    /\ elrc_content = <<>>
    /\ txt_content = <<>>
    /\ rpc = "aligned"
    /\ IdleAlign
    /\ IdleBatch
    /\ IdleTime
    /\ IdleMapper
    /\ IdleEngine
    /\ IdleLanguage
    /\ IdleCleanup
    /\ IdleStamps

\* forced_alignment.py 181
ToLrc ==
    /\ rpc = "aligned"
    /\ lrc_content' = to_lrc(alignments)
    /\ rpc' = "lrc"
    /\ UNCHANGED <<alignments, elrc_content, txt_content>>
    /\ UNCHANGED <<alignVars, batchVars, timeVars, mapperVars, engineVars,
                   languageVars, cleanupVars, stampVars>>

\* forced_alignment.py 182
ToElrc ==
    /\ rpc = "lrc"
    /\ elrc_content' = to_elrc(alignments)
    /\ rpc' = "elrc"
    /\ UNCHANGED <<alignments, lrc_content, txt_content>>
    /\ UNCHANGED <<alignVars, batchVars, timeVars, mapperVars, engineVars,
                   languageVars, cleanupVars, stampVars>>

\* processing.py 127-130: "if config.get('CREATE_TXT', False) and
\* lrc_content:"
ExportTxt ==
    /\ rpc = "elrc"
    /\ lrc_content # <<>>
    /\ txt_content' = plain_text(lrc_content)
    /\ rpc' = "txt"
    /\ UNCHANGED <<alignments, lrc_content, elrc_content>>
    /\ UNCHANGED <<alignVars, batchVars, timeVars, mapperVars, engineVars,
                   languageVars, cleanupVars, stampVars>>

NextRender ==
    \/ ToLrc
    \/ ToElrc
    \/ ExportTxt

SpecRender == InitRender /\ [][NextRender]_vars

---------------------------------------------------------------------------
(* SpecMapper: EnglishMapper and SinhalaMapper *)

\* re.findall(r"\S+|\s", text): every run of characters that are no
\* whitespace, and every whitespace character by itself
findall(text) ==
    LET starts == {p \in 1 .. Len(text) :
                      IsSpace(text[p]) \/ p = 1 \/ IsSpace(text[p - 1])}
        ends == {p \in 1 .. Len(text) :
                    IsSpace(text[p]) \/ p = Len(text) \/ IsSpace(text[p + 1])}
    IN  [n \in 1 .. Cardinality(starts) |->
            SubSeq(text, Sorted(starts)[n], Sorted(ends)[n])]

\* a part of SINHALA_MAP: the letter ka, the vowel a, the hal kirima whose
\* image is empty, the space and the line break; a Sinhala character is
\* written by its code point
SINHALA_MAP ==
    [c \in {"U+0D9A", "U+0D85", "U+0DCA", " ", NewLine} |->
        CASE c = "U+0D9A" -> <<"k", "a">>
          [] c = "U+0D85" -> <<"a">>
          [] c = "U+0DCA" -> <<>>
          [] c = " " -> <<" ">>
          [] c = NewLine -> <<" ">>]

\* SINHALA_MAP.get(c, c): a character without an image is kept
SinhalaGetKeeps(c) == IF c \in DOMAIN SINHALA_MAP THEN SINHALA_MAP[c] ELSE <<c>>

\* SINHALA_MAP.get(c, '')
SinhalaGet(c) == IF c \in DOMAIN SINHALA_MAP THEN SINHALA_MAP[c] ELSE <<>>

\* ''.join(self.SINHALA_MAP.get(c, '') for c in word)
Romanize(word) == Flatten([k \in 1 .. Len(word) |-> SinhalaGet(word[k])])

\* english.py 11-15 and sinhala.py 29-42
preprocess_text(lang, text) ==
    LET words == findall(text)
    IN  IF lang = "Sinhala"
        THEN [original |-> words,
              romanized |-> [k \in 1 .. Len(words) |->
                                IF NonBlank(words[k]) THEN Romanize(words[k])
                                ELSE words[k]]]
        ELSE [original |-> words, romanized |-> words]

UpperCase == <<"K", "A", "T">>
LowerCase == <<"k", "a", "t">>

\* str.lower() of one character
lower(c) ==
    IF \E n \in 1 .. Len(UpperCase) : UpperCase[n] = c
    THEN LowerCase[CHOOSE n \in 1 .. Len(UpperCase) : UpperCase[n] = c]
    ELSE c

\* labels.index(c), for a character of labels
index(vocab, c) ==
    (CHOOSE n \in 1 .. Len(vocab) :
        vocab[n] = c /\ \A m \in 1 .. n - 1 : vocab[m] # c) - 1

\* the characters the loop of create_token_sequence goes through:
\* word.lower() in english.py 22, word in sinhala.py 49
LoopChars(lang, word) ==
    IF lang = "Sinhala" THEN word ELSE [k \in 1 .. Len(word) |-> lower(word[k])]

\* the tokens of one word: the indices of its characters that are in labels
WordTokensOf(lang, word, vocab) ==
    LET chars == SelectSeq(LoopChars(lang, word), LAMBDA c : c \in Range(vocab))
    IN  [k \in 1 .. Len(chars) |-> index(vocab, chars[k])]

\* english.py 17-26 and sinhala.py 44-53
create_token_sequence(lang, words, vocab) ==
    Flatten([k \in 1 .. Len(words) |->
                IF NonBlank(words[k])
                THEN WordTokensOf(lang, words[k], vocab)
                         \o <<index(vocab, "|")>>
                ELSE <<>>])

\* a Python list as the function on 0 .. len - 1 that tokens is
ZeroBased(list) == [n \in 0 .. Len(list) - 1 |-> list[n + 1]]

\* the characters of the texts: whitespace, Latin letters of both cases and
\* Sinhala characters
TextChars == {" ", NewLine, "K", "k", "U+0D9A", "U+0DCA"}

Texts == UNION {[1 .. n -> TextChars] : n \in 0 .. MaxTextLen}

\* vocabularies with the separator: the model's labels, a vocabulary of
\* lower-case letters and one without letters
Vocabularies == {labels, <<"-", "|", "k", "a">>, <<"-", "|">>}

InitMapper ==
    /\ language \in {"English", "Sinhala"}
    /\ vocabulary \in Vocabularies
    /\ input_text \in Texts
    /\ original = <<>>
    /\ romanized = <<>>
    /\ mpc = "text"
    /\ IdleAlign
    /\ IdleBatch
    /\ IdleTime
    /\ IdleRender
    /\ IdleEngine
    /\ IdleLanguage
    /\ IdleCleanup
    /\ IdleStamps

PreprocessText ==
    /\ mpc = "text"
    /\ LET words == preprocess_text(language, input_text)
       IN  /\ original' = words.original
           /\ romanized' = words.romanized
    /\ mpc' = "words"
    /\ UNCHANGED <<language, vocabulary, input_text>>
    /\ UNCHANGED <<alignVars, batchVars, timeVars, renderVars, engineVars,
                   languageVars, cleanupVars, stampVars>>

CreateTokenSequence ==
    /\ mpc = "words"
    /\ tokens' = ZeroBased(create_token_sequence(language, romanized,
                                                 vocabulary))
    /\ mpc' = "tokens"
    /\ UNCHANGED <<language, vocabulary, input_text, original, romanized>>
    /\ UNCHANGED <<emissions, trellis, path, t, i, apc, word_segments>>
    /\ UNCHANGED <<batchVars, timeVars, renderVars, engineVars,
                   languageVars, cleanupVars, stampVars>>

NextMapper ==
    \/ PreprocessText
    \/ CreateTokenSequence

SpecMapper == InitMapper /\ [][NextMapper]_vars

---------------------------------------------------------------------------
(* SpecEngine: ForcedAligner.align *)

\* "return None, None, []"
NoAlignment ==
    [lrc_content |-> None, elrc_content |-> None, word_alignments |-> <<>>]

\* "if not tokens:" that never holds
NoTokensNever(toks) == FALSE

\* "if not tokens:"
NoTokens(toks) == toks = <<>>

\* the words of the transcripts: a letter, which in lower case is no label
\* of the model, and the character of the blank label
EngineWords == {<<"k">>, <<"-">>}

\* the transcripts: the empty one, one of whitespace only, and up to
\* MaxEngineWords times the same word with spaces in between
Transcripts ==
    {<<>>, <<" ">>}
        \cup {Join([k \in 1 .. n |-> w], <<" ">>) :
                 w \in EngineWords, n \in 1 .. MaxEngineWords}

\* the aligner of the default language, before align is called; emissions
\* is what the acoustic model answers for the audio
InitEngine ==
    /\ language = "English"
    /\ vocabulary = labels
    /\ input_text \in Transcripts
    /\ original = <<>>
    /\ romanized = <<>>
    /\ mpc = "idle"
    /\ emissions \in EmissionMatrices
    /\ tokens = <<>>
    /\ trellis = <<>>
    /\ path = <<>>
    /\ t = 0
    /\ i = 0
    /\ apc = "align"
    /\ word_segments = <<>>
    /\ result = <<>>
    /\ raised = FALSE
    /\ IdleBatch
    /\ IdleTime
    /\ IdleRender
    /\ IdleLanguage
    /\ IdleCleanup
    /\ IdleStamps

\* lines 186-188: an exception raised inside the try
ReturnNoAlignment ==
    /\ raised' = TRUE
    /\ result' = NoAlignment
    /\ apc' = "returned"

\* line 160: load_audio raises
LoadAudioFails ==
    /\ apc = "align"
    /\ ReturnNoAlignment
    /\ UNCHANGED <<emissions, tokens, trellis, path, t, i, word_segments>>
    /\ UNCHANGED <<batchVars, timeVars, renderVars, mapperVars,
                   languageVars, cleanupVars, stampVars>>

\* lines 160-170: the audio is loaded, the text preprocessed and the
\* tokens created; without tokens align returns
Tokenize ==
    /\ apc = "align"
    /\ LET words == preprocess_text(language, input_text)
           toks == create_token_sequence(language, words.romanized,
                                         vocabulary)
       IN  /\ original' = words.original
           /\ romanized' = words.romanized
           /\ tokens' = ZeroBased(toks)
           /\ IF NoTokens(toks)
              THEN /\ result' = NoAlignment
                   /\ apc' = "returned"
              ELSE /\ result' = result
                   /\ apc' = "trellis"
    /\ UNCHANGED <<language, vocabulary, input_text, mpc, raised>>
    /\ UNCHANGED <<emissions, trellis, path, t, i, word_segments>>
    /\ UNCHANGED <<batchVars, timeVars, renderVars, languageVars,
                   cleanupVars, stampVars>>

\* line 60: the acoustic model raises
ModelFails ==
    /\ apc = "trellis"
    /\ ReturnNoAlignment
    /\ UNCHANGED <<emissions, tokens, trellis, path, t, i, word_segments>>
    /\ UNCHANGED <<batchVars, timeVars, renderVars, mapperVars,
                   languageVars, cleanupVars, stampVars>>

\* lines 176-178
AlignWords ==
    /\ apc = "path"
    /\ \E spf \in SamplesPerFrame :
          word_segments' =
              create_word_alignment(original, romanized, emissions, path,
                                    spf * NumFrames(emissions))
    /\ apc' = "words"
    /\ UNCHANGED <<emissions, tokens, trellis, path, t, i>>
    /\ UNCHANGED <<batchVars, textVars>>

\* lines 181-184
ReturnAlignment ==
    /\ apc = "words"
    /\ result' = [lrc_content |-> Some(to_lrc(word_segments)),
                  elrc_content |-> Some(to_elrc(word_segments)),
                  word_alignments |-> word_segments]
    /\ apc' = "returned"
    /\ UNCHANGED <<emissions, tokens, trellis, path, t, i, word_segments>>
    /\ UNCHANGED <<raised, batchVars, timeVars, renderVars, mapperVars,
                   languageVars, cleanupVars, stampVars>>

NextEngine ==
    \/ LoadAudioFails
    \/ Tokenize
    \/ ModelFails
    \/ BuildTrellis
    \/ BacktrackStep
    \/ ReturnPath
    \/ AlignWords
    \/ ReturnAlignment

SpecEngine == InitEngine /\ [][NextEngine]_vars

---------------------------------------------------------------------------
(* Properties of the alignment path *)

PathReturned == apc \in {"path", "words"}

\* The frame at which the path consumes token j: the path's entries for
\* token j end with the entry appended when the cursor moved from j+1 to j.
ConsumeFrame(pth, j) ==
    LET ks == {k \in 1 .. Len(pth) : pth[k][2] = j}
    IN  pth[CHOOSE k \in ks : \A m \in ks : m <= k][1]

ConsumeFrames(pth, N) == [j \in 0 .. N - 1 |-> ConsumeFrame(pth, j)]

\* one token per frame, in order: the consuming frames strictly increase
IsAlignment(frames, N) == \A j \in 0 .. N - 2 : frames[j] < frames[j + 1]

RECURSIVE SumOver(_, _)
SumOver(f, S) ==
    IF S = {} THEN 0
    ELSE LET x == CHOOSE y \in S : TRUE IN f[x] + SumOver(f, S \ {x})

\* the score of consuming token j at frames[j] and emitting blank elsewhere
AlignmentScore(em, tok, frames) ==
    LET N == NumTokens(tok)
        used == {frames[j] : j \in 0 .. N - 1}
    IN  SumOver([j \in 0 .. N - 1 |-> em[frames[j]][tok[j]]], 0 .. N - 1)
        + SumOver([f \in DOMAIN em |-> em[f][blank]], (DOMAIN em) \ used)

AllAlignments(em, tok) ==
    {fr \in [0 .. NumTokens(tok) - 1 -> DOMAIN em] :
        IsAlignment(fr, NumTokens(tok))}

\* C1: for 1 <= N <= F the returned path is a maximum-likelihood alignment:
\* each token is consumed at one frame of its own, in order, blank is emitted
\* on every other frame, and the path's score is trellis[F][N], the maximum
\* over all alignments.
C1_MaxLikelihoodPath ==
    (PathReturned /\ NumTokens(tokens) <= NumFrames(emissions)) =>
        LET N == NumTokens(tokens)
            F == NumFrames(emissions)
            frames == ConsumeFrames(path, N)
        IN  /\ IsAlignment(frames, N)
            /\ AlignmentScore(emissions, tokens, frames) = trellis[F, N]
            /\ \A fr \in AllAlignments(emissions, tokens) :
                  AlignmentScore(emissions, tokens, fr) <= trellis[F, N]

\* C2: the returned path has non-decreasing frame indices and its final
\* entry's frame index is the last frame, F-1.
C2_FramesNonDecreasing ==
    PathReturned =>
        /\ Len(path) >= 1
        /\ \A k \in 1 .. Len(path) - 1 : path[k][1] <= path[k + 1][1]
        /\ path[Len(path)][1] = NumFrames(emissions) - 1

C2_Witness ==
    /\ apc = "path"
    /\ NumFrames(emissions) >= 2
    /\ NumTokens(tokens) >= 2
    /\ \E k \in 1 .. Len(path) - 1 : path[k][1] < path[k + 1][1]

\* C3: the returned path is non-decreasing in both coordinates, starts at
\* (frame 0, token 0), contains every frame 0..F-1 and every token index
\* 0..N-1, for all F >= 1 and N >= 1, N > F included.
C3_PathCoversFramesAndTokens ==
    PathReturned =>
        /\ \A k \in 1 .. Len(path) - 1 :
              /\ path[k][1] <= path[k + 1][1]
              /\ path[k][2] <= path[k + 1][2]
        /\ Len(path) >= 1
        /\ path[1] = <<0, 0>>
        /\ \A f \in 0 .. NumFrames(emissions) - 1 :
              \E k \in 1 .. Len(path) : path[k][1] = f
        /\ \A j \in 0 .. NumTokens(tokens) - 1 :
              \E k \in 1 .. Len(path) : path[k][2] = j

C3_Witness ==
    /\ apc = "path"
    /\ NumTokens(tokens) > NumFrames(emissions)
    /\ NumFrames(emissions) >= 2

\* C10: every WordAlignment has start_time <= end_time, and the start times
\* of successive words are non-decreasing.
C10_WordTimesOrdered ==
    apc = "words" =>
        /\ \A k \in 1 .. Len(word_segments) :
              word_segments[k].start_time <= word_segments[k].end_time
        /\ \A k \in 1 .. Len(word_segments) - 1 :
              word_segments[k].start_time <= word_segments[k + 1].start_time

C10_Witness ==
    /\ apc = "words"
    /\ Len(word_segments) >= 2
    /\ word_segments[1].start_time < word_segments[2].start_time

---------------------------------------------------------------------------
(* Properties of the batch *)

JobDone(j) == jobs[j].pc = "done"

\* the client has returned to transcribe_and_timestamp, or was never called
ClientReturned(j) == jobs[j].pc \in {"align", "save", "cleanup"}

InFlightJobs == {j \in DOMAIN jobs : InFlight(jobs[j])}

WokenJobs == {j \in DOMAIN jobs : jobs[j].pc = "woken"}

\* every temporary file a job can create: its working copy, its isolated
\* vocals and the converted WAV of either
JobFiles(j) ==
    LET input == InputPath(files[j])
        vocals == {VocalsPath(input, now) : now \in 0 .. MaxClock}
    IN  {SafeInputPath(input), ConvertedPath(input)} \cup vocals
            \cup {ConvertedPath(v) : v \in vocals}

\* every stage of the job succeeds when it runs alone: its collaborators
\* work, the client is allowed at least one call and an output is asked for
SucceedsAlone(j) ==
    env[j] = "works" /\ config.MAX_RETRIES >= 1 /\ Requested(config) # {}

\* C4: every job that has terminated has executed the cleanup step, and no
\* temporary file recorded by the job exists when it returns.
C4_CleanupAlwaysRuns ==
    \A j \in DOMAIN jobs :
        JobDone(j) => hist[j].cleaned /\ hist[j].leftover = {}

\* C5: a job whose every stage succeeds when it runs alone ends Done
\* (process_audio_file_async returns True) in every interleaving with its
\* siblings.
C5_OutcomeIndependentOfSiblings ==
    \A j \in DOMAIN jobs :
        JobDone(j) /\ SucceedsAlone(j) => jobs[j].result = "True"

\* C6: the number of jobs inside process_audio_file_async never exceeds
\* max_workers; every slot is either free, held by a job in flight or handed
\* to a woken waiter; a job beyond the bound is queued on the semaphore; and
\* a job that has terminated, True or False, holds no slot.
C6_InFlightBounded ==
    /\ Cardinality(InFlightJobs) <= config.max_workers
    /\ semaphore.value >= 0
    /\ semaphore.value + Cardinality(InFlightJobs) + Cardinality(WokenJobs)
           = config.max_workers
    /\ \A j \in DOMAIN jobs :
           jobs[j].pc \in {"waiting", "woken"}
               <=> \E k \in DOMAIN semaphore.waiters : semaphore.waiters[k] = j

\* a job waits for a slot while max_workers jobs are in flight, one of them
\* about to terminate with a failure
C6_Witness ==
    /\ Cardinality(InFlightJobs) = config.max_workers
    /\ \E j \in DOMAIN jobs : jobs[j].pc = "waiting"
    /\ \E j \in DOMAIN jobs : jobs[j].pc = "cleanup" /\ jobs[j].outputs = {}

\* what the client hands to the job, given the last response it received
ClientResult(j) ==
    IF HasText(jobs[j].response)
    THEN Some(strip(jobs[j].response.text))
    ELSE None

C7_Calls ==
    \A j \in DOMAIN jobs :
        /\ hist[j].calls <= config.MAX_RETRIES
        \* no call follows a response that has text
        /\ jobs[j].pc \in {"attempt", "calling", "sleeping"}
               => ~HasText(jobs[j].response)
        /\ ClientReturned(j) => jobs[j].transcript = ClientResult(j)

C7_FalsyTranscriptFails ==
    \A j \in DOMAIN jobs :
        ClientReturned(j) /\ Falsy(jobs[j].transcript) /\ jobs'[j].pc = "done"
            => jobs'[j].result = "False"

\* C7 (amended): the client makes at most MAX_RETRIES calls and none after the
\* first response that has text; it returns that text with leading and
\* trailing whitespace stripped, which is the empty string when the text is
\* only whitespace, and None when no response had text; the job of an empty
\* or None transcript returns False; with MAX_RETRIES = 0 there is no call
\* and the result is None.
C7_RetriesAndStrippedTranscript ==
    [](C7_Calls) /\ [][C7_FalsyTranscriptFails]_vars

\* the first call fails, the second answers with padded text, which the
\* client returns stripped
C7_Witness ==
    \E j \in DOMAIN jobs :
        /\ jobs[j].pc = "align"
        /\ hist[j].calls = 2
        /\ jobs[j].attempt = 1
        /\ jobs[j].response = Text(<<"a", " ">>)
        /\ jobs[j].transcript = Some(<<"a">>)

\* C7 (as stated): the client returns either a non-empty transcript, the one
\* its last call yielded, or None.
C7_TranscriptOrNone ==
    \A j \in DOMAIN jobs :
        ClientReturned(j) =>
            \/ jobs[j].transcript = None
            \/ /\ ~Falsy(jobs[j].transcript)
               /\ jobs[j].transcript.text = strip(jobs[j].response.text)

\* C8: when every job's collaborators work except that the transcription of
\* some jobs fails on every call, the batch reports attempted = n and
\* succeeded = the number of jobs whose transcription works, and no temporary
\* file of a failing job is left.
C8_BatchCounts ==
    (/\ batch.pc = "returned"
     /\ config.MAX_RETRIES >= 1
     /\ Requested(config) # {}
     /\ \A j \in DOMAIN jobs : env[j] \in {"works", "api_down"})
        => /\ batch.total = NumJobs
           /\ batch.success_count
                  = Cardinality({j \in DOMAIN jobs : env[j] = "works"})
           /\ \A j \in DOMAIN jobs :
                  jobs[j].result = "False" => JobFiles(j) \cap fs = {}

\* the paths a step removes
Removed == fs \ fs'

C9_CleanupStep ==
    \A j \in DOMAIN jobs :
        jobs[j].pc = "cleanup" /\ jobs'[j].pc = "done" =>
            \A k \in DOMAIN jobs :
                k # j /\ InFlight(jobs[k]) =>
                    Removed \cap Range(jobs[k].temp_files)
                        \subseteq Range(jobs[j].temp_files)

\* C9: the cleanup of one job removes no path recorded by another job in
\* flight, unless the job has recorded the same path itself.
C9_CleanupOnlyOwnPaths == [][C9_CleanupStep]_vars

---------------------------------------------------------------------------
(* Properties of the single word *)

\* C11: the one word of tokens [K, A, T, sep], aligned against F frames that
\* favour K, then A, then T over consecutive ranges covering every frame,
\* starts at time 0 and ends at F times the frame duration.
C11_SingleWordSpansAllFrames ==
    (apc = "words" /\ tokens = WordTokens) =>
        \E spf \in SamplesPerFrame :
            LET F == NumFrames(emissions)
                frame_duration == FrameDuration(spf * F, F)
            IN  word_segments = <<[word |-> <<"1">>,
                                   start_time |-> 0,
                                   end_time |-> F * frame_duration]>>

\* the example of 10 frames: 0-4 favour K, 5-7 favour A, 8-9 favour T
C11_Example ==
    (apc = "words" /\ emissions = FavouringEmissions(10, 5, 8, -1)) =>
        word_segments[1].end_time \in {10 * 20, 10 * 30}

---------------------------------------------------------------------------
(* Properties of the formatted time *)

Formatted == fpc = "formatted"

\* the text [mm:ss.hh] of a number of minutes and of hundredths of a second
StampText(mins, hundredths) ==
    <<"[">> \o Format02d(mins) \o <<":">> \o Format02d(hundredths \div 100)
        \o <<".">> \o Format02d(hundredths % 100) \o <<"]">>

\* C12: both _format_time and format_lrc_time render a time as [mm:ss.hh]
\* with mm = floor(seconds / 60), never wrapped to hours, and ss.hh the
\* remainder, a number of seconds below 60; 0 gives [00:00.00], 65.5 gives
\* [01:05.50] and 3600 gives [60:00.00].
C12_MinutesAndRemainder ==
    Formatted =>
        /\ stamp.mins = seconds \div 60000
        /\ stamp.secs < 6000
        /\ stamp.text = StampText(stamp.mins, stamp.secs)
        /\ seconds = 0 => stamp.text = StampText(0, 0)
        /\ seconds = 65500 => stamp.text = StampText(1, 550)
        /\ seconds = 3600000 => stamp.text = StampText(60, 0)

\* C13: _format_time rounds to hundredths before it splits the time, so the
\* seconds field is between 00.00 and 59.99 whatever the time, and 59.999 s
\* is rendered [01:00.00].
C13_SecondsFieldBelowSixty ==
    (Formatted /\ stamp.by = "_format_time") =>
        /\ stamp.secs \in 0 .. 5999
        /\ stamp.text = StampText(stamp.mins, stamp.secs)
        /\ LET rounded == stamp.mins * 6000 + stamp.secs
           IN  /\ rounded * 10 - seconds <= 5
               /\ seconds - rounded * 10 <= 5
        /\ seconds = 59999 =>
               stamp.text = <<"[", "0", "1", ":", "0", "0", ".", "0", "0", "]">>

C13_Witness ==
    /\ Formatted
    /\ stamp.by = "_format_time"
    /\ seconds = 59999
    /\ stamp.mins = 1
    /\ stamp.secs = 0

---------------------------------------------------------------------------
(* Properties of the rendered documents *)

\* text.split(): the runs of characters between runs of whitespace
split(text) ==
    LET starts == {p \in 1 .. Len(text) :
                      ~IsSpace(text[p]) /\ (p = 1 \/ IsSpace(text[p - 1]))}
        ends == {p \in 1 .. Len(text) :
                    ~IsSpace(text[p])
                        /\ (p = Len(text) \/ IsSpace(text[p + 1]))}
    IN  [n \in 1 .. Cardinality(starts) |->
            SubSeq(text, Sorted(starts)[n], Sorted(ends)[n])]

WordSequence == [k \in 1 .. Len(alignments) |-> alignments[k].word]

\* part is in text at position k
OccursAt(text, k, part) ==
    /\ k + Len(part) - 1 <= Len(text)
    /\ \A n \in 1 .. Len(part) : text[k + n - 1] = part[n]

\* text holds the timestamp of one of the alignments
HoldsTimestamp(text) ==
    \E a \in 1 .. Len(alignments), k \in 1 .. Len(text) :
        OccursAt(text, k, Timestamp(alignments[a]))

\* C14: once the documents are rendered and exported, the line-level and the
\* word-level document with their timestamp tokens removed and their
\* whitespace collapsed are the original words in order, and the plain-text
\* export holds no timestamp token.
C14_RoundTrip ==
    rpc = "txt" =>
        /\ split(plain_text(lrc_content)) = WordSequence
        /\ split(plain_text(elrc_content)) = WordSequence
        /\ ~HoldsTimestamp(txt_content)

Rendered(doc) ==
    CASE doc = "lrc" -> rpc \in {"lrc", "elrc", "txt"}
      [] doc = "elrc" -> rpc \in {"elrc", "txt"}

Ceil(n, size) == (n + size - 1) \div size

\* the alignments of batch k when the batches have size alignments
Batch(k, size) ==
    SubSeq(alignments, size * (k - 1) + 1,
           IF size * k < Len(alignments) THEN size * k ELSE Len(alignments))

\* the batches partition the alignments in order into ceil(n / size)
\* batches of size alignments, the last one of 1 to size alignments
Partitioned(batches, size) ==
    /\ Flatten(batches) = alignments
    /\ Len(batches) = Ceil(Len(alignments), size)
    /\ \A k \in 1 .. Len(batches) :
           /\ batches[k] # <<>>
           /\ Len(batches[k]) <= size
           /\ k < Len(batches) => Len(batches[k]) = size
           /\ batches[k] = Batch(k, size)

\* the text of a line after its leading timestamp
LrcLineText(words) ==
    Flatten([n \in 1 .. Len(words) |->
                (IF n > 1 THEN <<" ">> ELSE <<>>) \o words[n].word])

ElrcLineText(words) ==
    Flatten([n \in 1 .. Len(words) |->
                <<"<">> \o Timestamp(words[n]) \o <<">">> \o words[n].word])

\* C15: to_lrc and to_elrc partition the alignments, in order and without
\* loss or duplication, into consecutive batches of 4 (line-level) and 3
\* (word-level) words, only the last batch shorter and none empty; each line
\* of the document starts with the timestamp of the start time of its
\* batch's first word; n words give ceil(n / size) lines and no alignments
\* give the empty document.
C15_BatchesPartitionTheWords ==
    /\ Rendered("lrc") =>
           LET doc_lines == splitlines(lrc_content)
           IN  /\ Partitioned(Lines(alignments, lrc_words_per_line, <<>>), 4)
               /\ Len(doc_lines) = Ceil(Len(alignments), 4)
               /\ \A k \in 1 .. Len(doc_lines) :
                      doc_lines[k] = Timestamp(alignments[4 * (k - 1) + 1])
                                         \o LrcLineText(Batch(k, 4))
               /\ alignments = <<>> => lrc_content = <<>>
    /\ Rendered("elrc") =>
           LET doc_lines == splitlines(elrc_content)
           IN  /\ Partitioned(Lines(alignments, elrc_words_per_line, <<>>), 3)
               /\ Len(doc_lines) = Ceil(Len(alignments), 3)
               /\ \A k \in 1 .. Len(doc_lines) :
                      doc_lines[k] = Timestamp(alignments[3 * (k - 1) + 1])
                                         \o ElrcLineText(Batch(k, 3))
               /\ alignments = <<>> => elrc_content = <<>>

\* five words: a full line and a shorter last line in both documents, the
\* second line-level line starting at another time than the first
C15_Witness ==
    /\ Rendered("elrc")
    /\ Len(alignments) = 5
    /\ alignments[1].start_time # alignments[5].start_time
    /\ Len(splitlines(lrc_content)) = 2
    /\ Len(splitlines(elrc_content)) = 2

---------------------------------------------------------------------------
(* Properties of the language mappers *)

Preprocessed == mpc \in {"words", "tokens"}

Tokenized == mpc = "tokens"

\* the token sequence as a list
TokenList == [n \in 1 .. NumTokens(tokens) |-> tokens[n - 1]]

InVocabulary(c) == \E n \in 1 .. Len(vocabulary) : vocabulary[n] = c

VocabularyIndex(c) == (CHOOSE n \in 1 .. Len(vocabulary) : vocabulary[n] = c) - 1

\* a whitespace entry, or a word that transliteration has emptied
Blank(word) == \A k \in 1 .. Len(word) : IsSpace(word[k])

\* one index per character of the word that is in the vocabulary, in the
\* order of the characters, then the index of the separator
IndicesThenSeparator(word) ==
    LET known == SelectSeq(word, InVocabulary)
    IN  [k \in 1 .. Len(known) |-> VocabularyIndex(known[k])]
            \o <<VocabularyIndex("|")>>

\* C17: for every list of normalized words and every vocabulary,
\* create_token_sequence emits for each non-whitespace word, in order, one
\* vocabulary index per character of the word that is in the vocabulary,
\* then one separator index; characters that are not in the vocabulary are
\* skipped and whitespace entries emit nothing.
C17_IndicesOfTheCharacters ==
    Tokenized =>
        TokenList = Flatten([k \in 1 .. Len(romanized) |->
                                IF Blank(romanized[k]) THEN <<>>
                                ELSE IndicesThenSeparator(romanized[k])])

\* C18: create_token_sequence returns the empty sequence when no character
\* of any word is in the vocabulary, be it as written or in lower case.
C18_EmptyWithoutKnownCharacters ==
    (Tokenized /\ \A k \in 1 .. Len(romanized) :
                      \A n \in 1 .. Len(romanized[k]) :
                          /\ ~InVocabulary(romanized[k][n])
                          /\ ~InVocabulary(lower(romanized[k][n])))
        => TokenList = <<>>

\* a single whitespace character
WhitespaceEntry(word) == Len(word) = 1 /\ IsSpace(word[1])

\* a run of characters none of which is whitespace
WordEntry(word) == word # <<>> /\ \A k \in 1 .. Len(word) : ~IsSpace(word[k])

\* the image of a character in the table, nothing for a character the
\* table does not have
TableImage(c) == IF c \in DOMAIN SINHALA_MAP THEN SINHALA_MAP[c] ELSE <<>>

\* C19: preprocess_text keeps whitespace as entries of their own: the
\* original words concatenated are the text, both lists have the same
\* length with the whitespace entries at the same positions, and each
\* Sinhala normalized word is the concatenation, in order, of the table
\* images of its characters, the characters without an image dropped.
C19_WhitespaceKept ==
    Preprocessed =>
        /\ Flatten(original) = input_text
        /\ Len(romanized) = Len(original)
        /\ \A k \in 1 .. Len(original) :
              /\ WhitespaceEntry(original[k]) \/ WordEntry(original[k])
              /\ WhitespaceEntry(original[k]) <=> WhitespaceEntry(romanized[k])
              /\ WhitespaceEntry(original[k]) => romanized[k] = original[k]
              /\ WordEntry(original[k]) =>
                     IF language = "Sinhala"
                     THEN romanized[k] =
                              Flatten([n \in 1 .. Len(original[k]) |->
                                          TableImage(original[k][n])])
                     ELSE romanized[k] = original[k]

\* a Sinhala text of a letter, a character without an image and a space
C19_Witness ==
    /\ Preprocessed
    /\ language = "Sinhala"
    /\ input_text = <<"U+0D9A", "k", " ">>
    /\ original = <<<<"U+0D9A", "k">>, <<" ">>>>
    /\ romanized = <<<<"k", "a">>, <<" ">>>>

---------------------------------------------------------------------------
(* Properties of align *)

Returned == apc = "returned"

DigitValue(c) == (CHOOSE d \in 1 .. Len(DigitChars) : DigitChars[d] = c) - 1

\* the time, in hundredths of a second, of the [mm:ss.hh] a line starts with
LineTime(line) ==
    (DigitValue(line[2]) * 10 + DigitValue(line[3])) * 6000
        + (DigitValue(line[5]) * 10 + DigitValue(line[6])) * 100
        + DigitValue(line[8]) * 10 + DigitValue(line[9])

\* the lines of the line-level document align has returned
ReturnedLines ==
    IF result.lrc_content.isNone THEN <<>>
    ELSE splitlines(result.lrc_content.text)

\* C16: in the line-level document of an alignment that align has computed,
\* the timestamp of each line is below the timestamp of the next line.
C16_LineTimestampsIncrease ==
    Returned =>
        \A k \in 1 .. Len(ReturnedLines) - 1 :
            LineTime(ReturnedLines[k]) < LineTime(ReturnedLines[k + 1])

\* C20: a transcript that is empty or all whitespace has no tokens, and
\* align returns no alignment for it without building the trellis; an
\* exception inside align is not raised to the caller, align returns no
\* alignment then as well.
C20_NoAlignmentWithoutTokens ==
    Returned =>
        /\ Blank(input_text) =>
               /\ tokens = <<>>
               /\ trellis = <<>>
               /\ path = <<>>
               /\ result = NoAlignment
        /\ raised => result = NoAlignment

\* align has preprocessed a transcript of one space and returned
C20_Witness ==
    /\ Returned
    /\ ~raised
    /\ input_text = <<" ">>
    /\ original = <<<<" ">>>>
    /\ result = NoAlignment

---------------------------------------------------------------------------
(* Properties of the path's steps *)

\* the entries of the path at frame f
EntriesAt(f) == {k \in 1 .. Len(path) : path[k][1] = f}

\* the token index the path has reached when it leaves frame f
TokenReached(f) == path[CHOOSE k \in EntriesAt(f) : \A m \in EntriesAt(f) : m <= k][2]

\* the tokens the backtracking took at frame f: every entry of the frame but
\* the one appended when the frame was left
TokensTakenAt(f) == Cardinality(EntriesAt(f)) - 1

\* C21: in the returned path each frame stays on the current token or
\* advances to the next one: the token index grows by at most 1 from a frame
\* to the next and no frame consumes two or more tokens.
C21_OneTokenPerFrame ==
    PathReturned =>
        /\ \A f \in 0 .. NumFrames(emissions) - 1 : TokensTakenAt(f) <= 1
        /\ \A f \in 1 .. NumFrames(emissions) - 1 :
              TokenReached(f) - TokenReached(f - 1) <= 1

\* at the cursor the score of staying equals the score of advancing
Tie ==
    /\ apc = "backtrack"
    /\ t >= 0
    /\ i > 0
    /\ trellis[t, i] = Plus(trellis[t, i - 1], emissions[t][tokens[i - 1]])

\* C22: ties are broken in favour of staying: a backtracking step taken at
\* a tie with token index i > 0 keeps the token index and decrements the
\* frame index.
C22_TieStays == [][Tie => (i' = i /\ t' = t - 1)]_vars

---------------------------------------------------------------------------
(* Properties of the words of the path *)

\* the positions of the words create_word_alignment was given whose
\* romanized form is no whitespace
WordPositions == {k \in 1 .. Len(romanized) : NonBlank(romanized[k])}

\* the token-index range of the word at position k: its characters that are
\* labels and its separator, after the ranges of the words before it
RangeStart(k) ==
    SumOver([j \in 1 .. Len(romanized) |-> CharsInLabels(romanized[j]) + 1],
            {j \in WordPositions : j < k})

RangeEnd(k) == RangeStart(k) + CharsInLabels(romanized[k])

\* the entries of the path in the range of the word at position k
EntriesOf(k) ==
    {n \in 1 .. Len(path) :
        RangeStart(k) <= path[n][2] /\ path[n][2] <= RangeEnd(k)}

FirstOf(S) == CHOOSE n \in S : \A m \in S : n <= m

LastOf(S) == CHOOSE n \in S : \A m \in S : m <= n

\* the positions of the words that have an entry of the path, in order
WordsOnPath == Sorted({k \in WordPositions : EntriesOf(k) # {}})

\* C23: create_word_alignment emits a WordAlignment for exactly the words
\* whose token-index range holds an entry of the path, in order, each with
\* the word itself, the start of the first and the end of the last entry of
\* its range; a word without an entry is left out, is given no span, and the
\* words after it are emitted all the same.
C23_WordsOnPathOnly ==
    apc = "words" =>
        \E spf \in SamplesPerFrame :
            LET F == NumFrames(emissions)
                frame_duration == FrameDuration(spf * F, F)
            IN  word_segments =
                    [n \in 1 .. Len(WordsOnPath) |->
                        LET k == WordsOnPath[n]
                        IN  [word |-> original[k],
                             start_time |->
                                 path[FirstOf(EntriesOf(k))][1] * frame_duration,
                             end_time |->
                                 (path[LastOf(EntriesOf(k))][1] + 1)
                                     * frame_duration]]

---------------------------------------------------------------------------
(* Properties of the stages of a job *)

\* job j begins an attempt after its first one
NextAttemptBegins(j) ==
    /\ jobs'[j].pc = "attempt"
    /\ jobs'[j].attempt = jobs[j].attempt + 1

\* job j begins to sleep the retry delay
SleepBegins(j) == jobs[j].pc # "sleeping" /\ jobs'[j].pc = "sleeping"

\* C24: between two consecutive attempts the client sleeps the retry delay,
\* after an attempt that raised and after an attempt that answered without
\* text alike, and it does not sleep after the last attempt.
C24_SleepBetweenAttempts ==
    [][\A j \in Jobs :
          /\ NextAttemptBegins(j) => jobs[j].pc = "sleeping"
          /\ SleepBegins(j) => jobs[j].attempt + 1 < config.MAX_RETRIES]_vars

\* C25: whatever happens in the vocal isolation of a job, the job goes on to
\* the conversion: with the isolated vocals when there are some, with the
\* original audio otherwise; the isolation never ends the job.
C25_IsolationNeverFailsJob ==
    [][\A j \in Jobs :
          jobs[j].pc = "isolate" =>
              \/ jobs'[j].pc = "isolate"
              \/ /\ jobs'[j].pc = "convert"
                 /\ \/ jobs'[j].file_path = InputPath(files[j])
                    \/ jobs'[j].file_path \in fs']_vars

\* the stages in which a job computes: it awaits nothing
Computing(j) ==
    jobs[j].pc \in {"isolate", "convert", "transcribe", "attempt", "align",
                    "save", "cleanup"}

\* the stages of a job after it has obtained its transcript
HasTranscript(j) == jobs[j].pc \in {"align", "save", "cleanup"}

\* the step leaves job k alone, but for the wake-up of a waiter by the
\* release of the semaphore
LeftAlone(k) ==
    \/ jobs'[k] = jobs[k]
    \/ /\ jobs[k].pc = "waiting"
       /\ jobs'[k] = [jobs[k] EXCEPT !.pc = "woken"]

\* C26: a job gives up the event loop only where it awaits the external
\* call or the retry delay (and where it returns): a job that computes is
\* the one that runs, and from the transcript on every step is a step of
\* that job, through alignment, formatting, writing and cleanup, until it
\* returns.
C26_NoInterleavingAfterTranscript ==
    /\ [](\A j \in Jobs : Computing(j) => running = j)
    /\ [][\A j \in Jobs :
             /\ (running = j /\ running' # j) =>
                    jobs'[j].pc \in {"waiting", "calling", "sleeping", "done"}
             /\ HasTranscript(j) =>
                    /\ HasTranscript(j)' \/ jobs'[j].pc = "done"
                    /\ \A k \in Jobs \ {j} : LeftAlone(k)]_vars

\* a job is cleaning up while another job awaits the answer to its call
C26_Witness ==
    \E j, k \in Jobs :
        /\ jobs[j].pc = "cleanup"
        /\ jobs[j].content = "text"
        /\ jobs[k].pc = "calling"
        /\ running = j

\* the stage a job is in, numbered in the order of the stages: 0 Pending,
\* 1 VocalIsolating, 2 Converting, 3 Transcribing, 4 Aligning and
\* Formatting, 5 Writing, 6 the cleanup of the finally clause, 7 Done or
\* Failed
StageOf(job) ==
    CASE job.pc \in {"pending", "waiting", "woken"} -> 0
      [] job.pc = "isolate" -> 1
      [] job.pc = "convert" -> 2
      [] job.pc \in {"transcribe", "attempt", "calling", "sleeping"} -> 3
      [] job.pc = "align" -> 4
      [] job.pc = "save" -> 5
      [] job.pc = "cleanup" -> 6
      [] job.pc = "done" -> 7

\* the stages that may follow a stage; a stage that has failed is followed
\* by nothing but the cleanup and the end of the job
StagesAfter(job) ==
    CASE StageOf(job) = 0 -> {0, 1, 2}
      [] StageOf(job) = 1 -> {2, 7}
      [] StageOf(job) = 2 -> {3, 7}
      [] StageOf(job) = 3 -> {3, 4, 5}
      [] StageOf(job) = 4 -> {5}
      [] StageOf(job) = 5 -> {6}
      [] StageOf(job) = 6 -> {7}
      [] StageOf(job) = 7 -> {7}

\* the job has a transcript with at least one character
NonEmptyTranscript(job) ==
    ~job.transcript.isNone /\ Len(job.transcript.text) > 0

C27_Stages ==
    \A j \in Jobs :
        \* alignment only with a non-empty transcript
        /\ jobs[j].pc = "align" => NonEmptyTranscript(jobs[j])
        \* alignment content only from an alignment
        /\ jobs[j].content = "text" =>
               jobs[j].pc \in {"save", "cleanup"} /\ NonEmptyTranscript(jobs[j])
        \* output files only from alignment content
        /\ (jobs[j].outputs # {} /\ jobs[j].pc # "done") =>
               jobs[j].pc = "cleanup" /\ jobs[j].content = "text"

C27_Steps ==
    \A j \in Jobs :
        /\ StageOf(jobs'[j]) \in StagesAfter(jobs[j]) \cup {StageOf(jobs[j])}
        \* the stage is entered with its input: the transcription is not
        \* skipped on the way to the alignment, nor the conversion on the way
        \* to the transcription
        /\ (StageOf(jobs'[j]) = 4 /\ StageOf(jobs[j]) # 4) =>
               StageOf(jobs[j]) = 3 /\ jobs[j].converted_path # NoPath
        \* a job without a transcript or without alignment content writes
        \* nothing and returns False
        /\ (StageOf(jobs[j]) \in {5, 6} /\ jobs[j].content = "none") =>
               /\ jobs'[j].outputs = {}
               /\ jobs'[j].content = "none"
               /\ jobs'[j].pc = "done" => jobs'[j].result = "False"
        \* a failed conversion or an escaped exception ends the job at once
        /\ (StageOf(jobs[j]) \in {1, 2} /\ jobs'[j].pc = "done") =>
               jobs'[j].result = "False" /\ jobs'[j].outputs = {}

\* C27: a job passes through its stages in the order Pending,
\* VocalIsolating (optional), Converting, Transcribing, Aligning and
\* Formatting, Writing, then Done or Failed; alignment starts only with a
\* non-empty transcript, an output file is written only from alignment
\* content, and after a failed stage the job only cleans up and returns
\* False.
C27_StageOrder == [](C27_Stages) /\ [][C27_Steps]_vars

\* a job has written its files from alignment content, and another job,
\* whose transcription has failed, is on its way out without any
C27_Witness ==
    \E j, k \in Jobs :
        /\ jobs[j].pc = "done" /\ jobs[j].result = "True"
        /\ jobs[j].outputs # {}
        /\ jobs[k].pc = "cleanup" /\ jobs[k].content = "none"
        /\ jobs[k].transcript = None /\ hist[k].calls > 0

---------------------------------------------------------------------------
(* Properties of the batch's return *)

\* the paths of the shared temporary directories and of what is in them
SharedTemporary ==
    {p \in fs : p.dir \in {"TEMP_DIR", "DEMUCS_OUTPUT_FOLDER"}}

\* C28: once batch processing has returned, whatever the outcomes of its
\* jobs, neither TEMP_DIR nor the Demucs output folder exists any more.
C28_SharedDirectoriesGone ==
    batch.pc = "returned" => SharedTemporary = {}

\* job j had alignment content and the writing of one of the requested
\* output files has failed
WriteFailed(j) ==
    /\ jobs[j].pc = "cleanup"
    /\ jobs[j].content = "text"
    /\ jobs[j].outputs # Requested(config)

\* C29: a job for which the writing of a requested output file has failed
\* returns False, also when another of its output files was written, and
\* its cleanup has run when it returns.
C29_WriteFailureFailsJob ==
    [][\A j \in Jobs :
          (WriteFailed(j) /\ jobs'[j].pc = "done") =>
              /\ jobs'[j].result = "False"
              /\ hist'[j].cleaned]_vars

---------------------------------------------------------------------------
(* SpecLanguage: config_loader.validate_language, called on a value of    *)
(* LANGUAGE and then on what it returned                                  *)

\* a Python value: its type and, for a string, its text; for a list, the
\* text of its one element
Str(x) == [type |-> "str", value |-> x]

SUPPORTED_LANGUAGES ==
    ("English" :> "en") @@ ("Sinhala" :> "si") @@ ("Tamil" :> "ta")
        @@ ("Hindi" :> "hi") @@ ("Spanish" :> "es") @@ ("French" :> "fr")
        @@ ("German" :> "de") @@ ("Japanese" :> "ja") @@ ("Korean" :> "ko")
        @@ ("Chinese" :> "zh") @@ ("Russian" :> "ru") @@ ("Arabic" :> "ar")
        @@ ("Portuguese" :> "pt") @@ ("Italian" :> "it") @@ ("Dutch" :> "nl")
        @@ ("Turkish" :> "tr") @@ ("Vietnamese" :> "vi") @@ ("Thai" :> "th")
        @@ ("Indonesian" :> "id") @@ ("Malay" :> "ms")

\* SUPPORTED_LANGUAGES.values()
LanguageCodes == {SUPPORTED_LANGUAGES[n] : n \in DOMAIN SUPPORTED_LANGUAGES}

\* "language in SUPPORTED_LANGUAGES" hashes language: a list or a dict has
\* no hash and the test raises TypeError
Hashable(x) == x.type \notin {"list", "dict"}

\* the value validate_language returns when it returns
validate_language(x) ==
    IF x.type = "str" /\ x.value \in DOMAIN SUPPORTED_LANGUAGES
    THEN Str(SUPPORTED_LANGUAGES[x.value])
    ELSE IF x.type = "str" /\ x.value \in LanguageCodes
    THEN x
    ELSE Str("en")

\* strings that are neither a name nor a code of the table
OtherStrings == {"Invalid", "english", "EN", "", "xx", "en ", "Klingon"}

\* the values a configuration file can give to LANGUAGE: JSON strings,
\* null, numbers, arrays and objects
LanguageInputs ==
    {Str(x) : x \in DOMAIN SUPPORTED_LANGUAGES \cup LanguageCodes
                        \cup OtherStrings}
        \cup {[type |-> "NoneType", value |-> ""],
              [type |-> "int", value |-> "1"],
              [type |-> "list", value |-> "English"],
              [type |-> "list", value |-> "en"],
              [type |-> "dict", value |-> ""]}

InitLanguage ==
    /\ requested \in LanguageInputs
    /\ validated = <<>>
    /\ vpc = "call"
    /\ language_mapper = ""
    /\ IdleAlign
    /\ IdleBatch
    /\ IdleTime
    /\ IdleRender
    /\ IdleMapper
    /\ IdleEngine
    /\ IdleCleanup
    /\ IdleStamps

\* validate_language(x), called in the state before and ending in after
Call(x, before, after) ==
    /\ vpc = before
    /\ IF Hashable(x)
       THEN /\ validated' = Append(validated, validate_language(x))
            /\ vpc' = after
       ELSE /\ validated' = validated
            /\ vpc' = "raised"
    /\ UNCHANGED <<requested, language_mapper>>
    /\ UNCHANGED <<alignVars, batchVars>>
    /\ UNCHANGED <<timeVars, renderVars, mapperVars, engineVars,
                   cleanupVars, stampVars>>

ValidateLanguage == Call(requested, "call", "returned")

\* validate_language of what validate_language returned
ValidateAgain ==
    /\ vpc = "returned"
    /\ Call(validated[1], "returned", "again")

LANGUAGE_MAPPERS ==
    ("Sinhala" :> "SinhalaMapper") @@ ("English" :> "EnglishMapper")

\* LANGUAGE_MAPPERS.get(language, EnglishMapper)
get_language_mapper(lang) ==
    IF lang \in DOMAIN LANGUAGE_MAPPERS THEN LANGUAGE_MAPPERS[lang]
    ELSE "EnglishMapper"

\* load_config has stored validate_language's result in config["LANGUAGE"];
\* transcribe_and_timestamp hands it to get_alignment, whose ForcedAligner
\* asks get_language_mapper for its mapper
GetLanguageMapper ==
    /\ vpc = "returned"
    /\ language_mapper' = get_language_mapper(validated[1].value)
    /\ vpc' = "mapper"
    /\ UNCHANGED <<requested, validated>>
    /\ UNCHANGED <<alignVars, batchVars>>
    /\ UNCHANGED <<timeVars, renderVars, mapperVars, engineVars,
                   cleanupVars, stampVars>>

NextLanguage ==
    \/ ValidateLanguage
    \/ ValidateAgain
    \/ GetLanguageMapper

SpecLanguage == InitLanguage /\ [][NextLanguage]_vars

---------------------------------------------------------------------------
(* Properties of validate_language *)

IsLanguageName(x) == x.type = "str" /\ x.value \in DOMAIN SUPPORTED_LANGUAGES

IsLanguageCode(x) == x.type = "str" /\ x.value \in LanguageCodes

\* what the first call on requested is to return
Expected ==
    IF IsLanguageName(requested) THEN Str(SUPPORTED_LANGUAGES[requested.value])
    ELSE IF IsLanguageCode(requested) THEN requested
    ELSE Str("en")

\* C30: validate_language returns the code of a supported language name,
\* returns a supported language code unchanged, returns "en" for every other
\* input, and gives the same value again when it is applied to its result.
C30_ValidateLanguage ==
    vpc \in {"returned", "again", "raised"} =>
        /\ vpc # "raised"
        /\ validated[1] = Expected
        /\ vpc = "again" => validated[2] = validated[1]

---------------------------------------------------------------------------
(* SpecCleanup: audio_utils.cleanup_temp_files, one removal at a time *)

\* a converted file in TEMP_DIR, a vocals file in the Demucs output folder
\* and a file of another folder
CleanupPaths ==
    {ConvertedPath(InputPath(AudioNames[1])),
     VocalsPath(InputPath(AudioNames[1]), 0),
     InputPath(AudioNames[3])}

\* the lists a caller records: no path twice
PathLists ==
    {<<>>} \cup {<<p>> : p \in CleanupPaths}
        \cup {pq \in CleanupPaths \X CleanupPaths : pq[1] # pq[2]}

\* what is inside a shared directory
Inside(folder, paths) == {p \in paths : p.dir = folder.dir /\ p # folder}

\* a file exists only in a directory that exists
Disks ==
    {d \in SUBSET (CleanupPaths \cup {TempDir, DemucsDir}) :
        /\ Inside(TempDir, d) # {} => TempDir \in d
        /\ Inside(DemucsDir, d) # {} => DemucsDir \in d}

\* the except clause of a removal logs a warning and the function goes on
\* to the place that follows
AfterFailureRaises(next) == [at |-> "raised", k |-> 0]

AfterFailure(next) == next

InitCleanup ==
    /\ listed \in PathLists
    /\ disk \in Disks
    /\ broken \in SUBSET (CleanupPaths \cup {TempDir, DemucsDir})
    /\ removals = <<>>
    \* "if converted_paths:" skips the loop for an empty list
    /\ upc = IF listed = <<>> THEN [at |-> "temp", k |-> 0]
                              ELSE [at |-> "files", k |-> 1]
    /\ IdleAlign
    /\ IdleBatch
    /\ IdleTime
    /\ IdleRender
    /\ IdleMapper
    /\ IdleEngine
    /\ IdleLanguage
    /\ IdleStamps

\* audio_utils.py 42-48: one round of "for path in converted_paths"
RemoveListed ==
    /\ upc.at = "files"
    /\ LET p == listed[upc.k]
           next == IF upc.k < Len(listed) THEN [at |-> "files", k |-> upc.k + 1]
                                          ELSE [at |-> "temp", k |-> 0]
       IN  IF p \in disk
           THEN /\ removals' = Append(removals, p)
                /\ IF p \in broken
                   THEN disk' = disk /\ upc' = AfterFailure(next)
                   ELSE disk' = disk \ {p} /\ upc' = next
           ELSE /\ UNCHANGED <<removals, disk>>
                /\ upc' = next
    /\ UNCHANGED <<listed, broken>>
    /\ UNCHANGED <<alignVars, batchVars>>
    /\ UNCHANGED <<timeVars, renderVars, mapperVars, engineVars, languageVars,
                   stampVars>>

\* shutil.rmtree(folder) inside try / except Exception: a failing rmtree
\* may have removed part of the content
RemoveTree(folder, next) ==
    /\ IF folder \in disk
       THEN /\ removals' = Append(removals, folder)
            /\ IF folder \in broken
               THEN /\ \E gone \in SUBSET Inside(folder, disk) :
                          disk' = disk \ gone
                    /\ upc' = AfterFailure(next)
               ELSE /\ disk' = disk \ ({folder} \cup Inside(folder, disk))
                    /\ upc' = next
       ELSE /\ UNCHANGED <<removals, disk>>
            /\ upc' = next
    /\ UNCHANGED <<listed, broken>>
    /\ UNCHANGED <<alignVars, batchVars>>
    /\ UNCHANGED <<timeVars, renderVars, mapperVars, engineVars, languageVars,
                   stampVars>>

\* audio_utils.py 50-55
RemoveTempDir ==
    /\ upc.at = "temp"
    /\ RemoveTree(TempDir, [at |-> "demucs", k |-> 0])

\* audio_utils.py 57-62
RemoveDemucsDir ==
    /\ upc.at = "demucs"
    /\ RemoveTree(DemucsDir, [at |-> "returned", k |-> 0])

NextCleanup ==
    \/ RemoveListed
    \/ RemoveTempDir
    \/ RemoveDemucsDir

SpecCleanup == InitCleanup /\ [][NextCleanup]_vars

---------------------------------------------------------------------------
(* Properties of cleanup_temp_files *)

CleanupTargets == Range(listed) \cup {TempDir, DemucsDir}

\* the number of removals of target p made so far
RemovalsOf(p) == Cardinality({n \in 1 .. Len(removals) : removals[n] = p})

\* C31: cleanup_temp_files never raises; it calls the removal of a listed
\* path and of each shared directory at most once and only for what exists;
\* when it has returned, a listed path or shared directory that still exists
\* is one whose removal was attempted and failed, so that without failures
\* none of them, and nothing inside the directories, is left; a failure
\* leaves the later removals in place.
C31_CleanupRemovesEverything ==
    /\ upc.at # "raised"
    /\ \A p \in Range(removals) : p \in CleanupTargets /\ RemovalsOf(p) = 1
    /\ upc.at = "returned" =>
           /\ \A p \in CleanupTargets \cap disk :
                  p \in broken /\ RemovalsOf(p) = 1
           /\ \A p \in disk \ CleanupTargets :
                  \/ p.dir \notin {TempDir.dir, DemucsDir.dir}
                  \/ \E folder \in {TempDir, DemucsDir} \cap disk :
                        p.dir = folder.dir

\* the removal of the first listed file has failed, and the second file and
\* both directories were removed all the same
C31_Witness ==
    /\ upc.at = "returned"
    /\ Len(listed) = 2
    /\ Len(removals) = 4
    /\ removals[1] = listed[1]
    /\ listed[1] \in disk
    /\ disk = {listed[1]}

---------------------------------------------------------------------------
(* Properties of the trellis *)

TrellisFilled == apc \in {"backtrack", "path", "words"}

\* the ways of emitting the first ii tokens in the first tt frames: the
\* frames at which the tokens are emitted, in order
PrefixAlignments(tt, ii) ==
    {fr \in [0 .. ii - 1 -> 0 .. tt - 1] : IsAlignment(fr, ii)}

\* the score of such a way: the token's score at its frame, the blank score
\* at every other frame
PrefixScore(em, tok, tt, fr) ==
    LET used == {fr[j] : j \in DOMAIN fr}
    IN  SumOver([j \in DOMAIN fr |-> em[fr[j]][tok[j]]], DOMAIN fr)
        + SumOver([f \in 0 .. tt - 1 |-> em[f][blank]], (0 .. tt - 1) \ used)

BestPrefixScore(em, tok, tt, ii) ==
    LET all == {PrefixScore(em, tok, tt, fr) : fr \in PrefixAlignments(tt, ii)}
    IN  IF all = {} THEN NegInf
        ELSE CHOOSE x \in all : \A y \in all : y <= x

\* C32: in the filled trellis, trellis[0][0] = 0, trellis[t][0] is the sum of
\* the blank scores of the first t frames, trellis[0][i] is -infinity for
\* i > 0, every other entry is the maximum of the entry above plus the blank
\* score and the entry above and to the left plus the token's score, and so
\* trellis[t][i] is the best score of emitting the first i tokens in the
\* first t frames, -infinity when i > t.
C32_TrellisIsBestPrefixScore ==
    TrellisFilled =>
        LET F == NumFrames(emissions)
            N == NumTokens(tokens)
        IN  /\ DOMAIN trellis = (0 .. F) \X (0 .. N)
            /\ trellis[0, 0] = 0
            /\ \A tt \in 0 .. F :
                   trellis[tt, 0]
                       = SumOver([f \in 0 .. tt - 1 |-> emissions[f][blank]],
                                 0 .. tt - 1)
            /\ \A ii \in 1 .. N : trellis[0, ii] = NegInf
            /\ \A tt \in 0 .. F - 1, ii \in 0 .. N - 1 :
                   trellis[tt + 1, ii + 1]
                       = Max(Plus(trellis[tt, ii + 1], emissions[tt][blank]),
                             Plus(trellis[tt, ii],
                                  emissions[tt][tokens[ii]]))
            /\ \A tt \in 0 .. F, ii \in 0 .. N :
                   /\ trellis[tt, ii]
                          = BestPrefixScore(emissions, tokens, tt, ii)
                   /\ ii > tt => trellis[tt, ii] = NegInf

\* a trellis of three frames and two tokens in which one entry comes from
\* staying on the token and another from taking it, each strictly better
C32_Witness ==
    /\ TrellisFilled
    /\ NumFrames(emissions) = 3
    /\ NumTokens(tokens) >= 2
    /\ \E tt \in 1 .. 2, ii \in 0 .. 1 :
           /\ trellis[tt, ii + 1] # NegInf
           /\ Plus(trellis[tt, ii + 1], emissions[tt][blank])
                  > Plus(trellis[tt, ii], emissions[tt][tokens[ii]])
    /\ \E tt \in 1 .. 2, ii \in 0 .. 1 :
           /\ trellis[tt, ii + 1] # NegInf
           /\ Plus(trellis[tt, ii + 1], emissions[tt][blank])
                  < Plus(trellis[tt, ii], emissions[tt][tokens[ii]])

---------------------------------------------------------------------------
(* Properties of the jobs' temporary paths *)

\* the temporary paths job j has made and still uses: the isolated vocals
\* and the converted WAV
Artifacts(j) ==
    (Range(jobs[j].temp_files) \cup {jobs[j].converted_path}) \ {NoPath}

\* C33: two distinct jobs of a batch never use the same temporary path.
C33_DistinctTemporaryPaths ==
    \A j, k \in DOMAIN jobs :
        j # k => Artifacts(j) \cap Artifacts(k) = {}

---------------------------------------------------------------------------
(* Properties of the words' labels *)

\* the positions of the words that contributed tokens, in order
Contributors == Sorted(WordPositions)

\* C34: when every word that contributed tokens has an entry of the path,
\* the k-th WordAlignment carries the original word of the k-th word that
\* contributed tokens, also after a word whose normalized form is empty.
C34_WordIsOriginalOfItsTokens ==
    (apc = "words" /\ \A k \in WordPositions : EntriesOf(k) # {}) =>
        /\ Len(word_segments) <= Len(Contributors)
        /\ \A n \in 1 .. Len(word_segments) :
               word_segments[n].word = original[Contributors[n]]

---------------------------------------------------------------------------
(* Properties of the recomputed token ranges *)

\* the words of the romanized list that are no whitespace, in order
TokenWords == SelectSeq(romanized, NonBlank)

\* C35: with the aligner's labels as the vocabulary, the (start, end) range
\* create_word_alignment recomputes for the n-th word holds that word's
\* tokens of the mapper's token sequence: the word's character tokens from
\* start on and its separator at end; the last range ends at the last token.
C35_RangesMatchTokenSequence ==
    (mpc = "tokens" /\ vocabulary = labels) =>
        LET word_indices == WordIndices(romanized, 0)
            last == Len(word_indices)
        IN  /\ Len(word_indices) = Len(TokenWords)
            /\ \A n \in 1 .. Len(word_indices) :
                   LET start_pos == word_indices[n][1]
                       end_pos == word_indices[n][2]
                       chars == WordTokensOf(language, TokenWords[n], vocabulary)
                   IN  /\ end_pos - start_pos = Len(chars)
                       /\ end_pos \in DOMAIN tokens
                       /\ tokens[end_pos] = index(vocabulary, "|")
                       /\ \A m \in 1 .. Len(chars) :
                              tokens[start_pos + m - 1] = chars[m]
            /\ last > 0 => word_indices[last][2] = NumTokens(tokens) - 1

---------------------------------------------------------------------------
(* SpecBatchFair: the batch on an event loop that runs whatever is ready, *)
(* with transcription calls and retry delays that come to an end          *)

\* the event loop runs a ready coroutine until its next await; every
\* awaited call returns or raises, every sleep ends
SpecBatchFair ==
    /\ InitBatch
    /\ [][NextBatch]_vars
    /\ \A j \in Jobs :
          /\ WF_vars(Start(j))
          /\ WF_vars(Resume(j))
          /\ WF_vars(IsolateVocals(j))
          /\ WF_vars(ConvertToWav(j))
          /\ WF_vars(Transcribe(j))
          /\ WF_vars(Attempt(j))
          /\ WF_vars(Response(j))
          /\ WF_vars(SleepDone(j))
          /\ WF_vars(Align(j))
          /\ WF_vars(Save(j))
          /\ WF_vars(Cleanup(j))
    /\ WF_vars(Gather)

\* batch_process_async has returned its counts: every job is done and every
\* slot of the semaphore is free
BatchReturned ==
    /\ batch.pc = "returned"
    /\ batch.total = NumJobs
    /\ \A j \in Jobs : jobs[j].pc = "done" /\ jobs[j].result # "none"
    /\ semaphore = [value |-> config.max_workers, waiters |-> <<>>]

\* C36: every job eventually returns True or False and gives back its slot,
\* a job that waits for a slot eventually gets one, and batch_process_async
\* eventually returns its counts.
C36_BatchTerminates ==
    /\ <>[]BatchReturned
    /\ \A j \in Jobs :
          (jobs[j].pc \in {"waiting", "woken"}) ~> InFlight(jobs[j])

\* the batch has returned after a job had to wait for the only slot while
\* the other job went through every retry
C36_Witness ==
    /\ BatchReturned
    /\ config.max_workers = 1
    /\ \A j \in Jobs : hist[j].calls = MaxRetries

---------------------------------------------------------------------------
(* Properties of the choice of the mapper *)

\* the configured value names a language that has a mapper of its own
HasDedicatedMapper(x) == x.type = "str" /\ x.value \in DOMAIN LANGUAGE_MAPPERS

\* C37: when the configuration names a language that has a mapper of its
\* own, the aligner uses that mapper; the English mapper is the aligner's
\* only for English and for the languages without a mapper of their own.
C37_ConfiguredMapperIsUsed ==
    (vpc = "mapper" /\ HasDedicatedMapper(requested)) =>
        language_mapper = LANGUAGE_MAPPERS[requested.value]

---------------------------------------------------------------------------
(* Properties of successive words *)

\* the tokens are those of the words: the label characters of each word
\* that is no whitespace, then its separator
TokensOfTheWords ==
    tokens = ZeroBased(create_token_sequence("Sinhala", romanized, labels))

\* C38: the spans of successive words do not overlap: the end time of a
\* word is at most the start time of the word after it.
C38_SpansDoNotOverlap ==
    (apc = "words" /\ TokensOfTheWords) =>
        \A k \in 1 .. Len(word_segments) - 1 :
            word_segments[k].end_time <= word_segments[k + 1].start_time

---------------------------------------------------------------------------
(* Properties of the result of a job *)

\* the jobs for which an output file was written
JobsWithOutput == {j \in DOMAIN jobs : jobs[j].outputs # {}}

\* C39: a job returns True exactly when one of its output files was
\* written; the succeeded count of the batch is the number of these jobs and
\* at most the attempted count; with every CREATE_* option off a job returns
\* False also when its transcription and alignment succeed.
C39_TrueIffOutputWritten ==
    /\ \A j \in DOMAIN jobs :
          jobs[j].pc = "done" =>
              /\ jobs[j].result = "True" <=> j \in JobsWithOutput
              /\ Requested(config) = {} => jobs[j].result = "False"
    /\ batch.pc = "returned" =>
          /\ batch.success_count = Cardinality(JobsWithOutput)
          /\ batch.success_count <= batch.total

\* with every CREATE_* option off the batch has returned no success, though
\* the transcription and the alignment of a job worked
C39_Witness ==
    /\ batch.pc = "returned"
    /\ Requested(config) = {}
    /\ batch.success_count = 0
    /\ \E j \in DOMAIN jobs :
          env[j] = "works" /\ hist[j].calls >= 1 /\ hist[j].cleaned

---------------------------------------------------------------------------
(* SpecStamps: timestamping.analyze_audio_timestamps, with its fallback   *)
(* evenly_space_timestamps.  Times are counted in ticks, a fraction of a  *)
(* sample fine enough for every division by a number of lines to be exact *)

\* the least number every number of lines divides
TicksPerSample ==
    CHOOSE m \in 1 .. 1000 :
        /\ \A n \in 1 .. MaxLines : m % n = 0
        /\ \A l \in 1 .. m - 1 : \E n \in 1 .. MaxLines : l % n # 0

Ticks(secs) == secs * sample_rate * TicksPerSample

\* waveform.shape[1]: the samples of an audio of d seconds
Samples(d) == d * sample_rate

\* chunk_size = int(max(3, total_duration / len(lines)) * sample_rate)
ChunkSize(d, n) ==
    LET per_line == Samples(d) \div n
    IN  IF 3 * sample_rate >= per_line THEN 3 * sample_rate ELSE per_line

\* num_chunks = (waveform.shape[1] + chunk_size - 1) // chunk_size
NumChunks(d, n) == (Samples(d) + ChunkSize(d, n) - 1) \div ChunkSize(d, n)

\* offset before chunk k (from 0): every chunk before it is a full one
OffsetOf(d, n, k) == k * ChunkSize(d, n) * TicksPerSample

\* np.linspace(0, duration, num_lines + 1)[:-1].tolist()
evenly_space_timestamps(d, n) == [k \in 1 .. n |-> ((k - 1) * Ticks(d)) \div n]

\* results[-1] if results else 0
LastOr0(list) == IF list = <<>> THEN 0 ELSE list[Len(list)]

InitStamps ==
    /\ duration \in 1 .. MaxDuration
    /\ num_lines \in 1 .. MaxLines
    /\ results = <<>>
    /\ spc = [at |-> "start", k |-> 0, interval |-> 0]
    /\ IdleAlign
    /\ IdleBatch
    /\ IdleTime
    /\ IdleRender
    /\ IdleMapper
    /\ IdleEngine
    /\ IdleLanguage
    /\ IdleCleanup

StampsFrame ==
    /\ UNCHANGED <<duration, num_lines>>
    /\ UNCHANGED <<alignVars, batchVars>>
    /\ UNCHANGED <<timeVars, renderVars, mapperVars, engineVars, languageVars,
                   cleanupVars>>

\* timestamping.py 62-81: the model and the audio are loaded and the
\* waveform is cut into chunks
LoadAndChunk ==
    /\ spc.at = "start"
    /\ results' = <<>>
    /\ spc' = [spc EXCEPT !.at = "chunks", !.k = 0]
    /\ StampsFrame

\* timestamping.py 122-130: the model-based approach has raised; the
\* timestamps are spaced evenly
ModelBasedFails ==
    /\ spc.at \in {"start", "chunks"}
    /\ results' = evenly_space_timestamps(duration, num_lines)
    /\ spc' = [at |-> "returned", k |-> 0, interval |-> 0]
    /\ StampsFrame

\* timestamping.py 108-110: the interval of the extension, computed once
\* from the last timestamp of the chunks
ExtensionInterval(d, list, n) == (Ticks(d) - LastOr0(list)) \div (n - Len(list))

\* timestamping.py 105-120, after the chunks: extend, truncate or return
AfterChunks(list) ==
    IF Len(list) < num_lines
    THEN /\ results' = list
         /\ spc' = [at |-> "extend", k |-> 0,
                    interval |-> ExtensionInterval(duration, list, num_lines)]
    ELSE /\ results' = SubSeq(list, 1, num_lines)
         /\ spc' = [at |-> "returned", k |-> 0, interval |-> 0]

\* timestamping.py 83-102: one chunk: its offset is recorded, and the loop
\* stops as soon as there is a timestamp for every line
ProcessChunk ==
    /\ spc.at = "chunks"
    /\ LET list == Append(results, OffsetOf(duration, num_lines, spc.k))
       IN  IF Len(list) < num_lines
              /\ spc.k + 1 < NumChunks(duration, num_lines)
           THEN /\ results' = list
                /\ spc' = [spc EXCEPT !.k = @ + 1]
           ELSE AfterChunks(list)
    /\ StampsFrame

\* timestamping.py 112-113: one round of "for i in range(remaining_lines)":
\* results.append(results[-1] + interval * (i + 1))
ExtendOnce ==
    /\ spc.at = "extend"
    /\ LET list == Append(results, LastOr0(results) + spc.interval * (spc.k + 1))
       IN  /\ results' = list
           /\ spc' = IF Len(list) < num_lines
                     THEN [spc EXCEPT !.k = @ + 1]
                     ELSE [at |-> "returned", k |-> 0, interval |-> 0]
    /\ StampsFrame

NextStamps ==
    \/ LoadAndChunk
    \/ ModelBasedFails
    \/ ProcessChunk
    \/ ExtendOnce

SpecStamps == InitStamps /\ [][NextStamps]_vars

---------------------------------------------------------------------------
(* Properties of the timestamps *)

\* C40: analyze_audio_timestamps returns one timestamp for each line; the
\* timestamps do not decrease and lie between 0 and the audio duration.
C40_TimestampsWithinDuration ==
    spc.at = "returned" =>
        /\ Len(results) = num_lines
        /\ \A k \in 1 .. Len(results) - 1 : results[k] <= results[k + 1]
        /\ \A k \in 1 .. Len(results) :
               0 <= results[k] /\ results[k] <= Ticks(duration)

====
